---- MODULE Spec2Model ----
(***************************************************************************)
(* saltybox: passphrase-based file encryption.                             *)
(*                                                                         *)
(* The model has two layers.                                               *)
(*   - the pure codecs: secretcrypt (binary envelope, src/secretcrypt.rs)  *)
(*     and varmor (text armor, src/varmor.rs), as operators on sequences   *)
(*     of bytes;                                                           *)
(*   - the file operations of src/file_ops.rs (encrypt_file, decrypt_file, *)
(*     update_file, write_file_secure) as step-by-step processes over a    *)
(*     small file system.                                                  *)
(*                                                                         *)
(* A byte is a number in 0..255, a file content or a string is a sequence  *)
(* of bytes (strings are kept as their UTF-8 bytes, as Rust does).         *)
(*                                                                         *)
(* The two library primitives, scrypt and XSalsa20-Poly1305, are replaced  *)
(* by small arithmetic functions of the same shape (a key derived from     *)
(* passphrase and salt; a keystream XORed over the plaintext; a            *)
(* polynomial one-time authenticator over the ciphertext, evaluated modulo *)
(* a prime as Poly1305 does).  They stand for primitives without           *)
(* collisions: the properties of the codec hold only if, on the inputs of  *)
(* the model, no two keys and no two tags collide.                         *)
(***************************************************************************)
EXTENDS Integers, Sequences, FiniteSets, TLC

(***************************************************************************)
(* Bounds of the model.                                                    *)
(***************************************************************************)
MaxLen == 2

\* bytes a plaintext of the codec specification is made of
PlainBytes == {0, 255}

\* passphrases are arbitrary bytes (not necessarily UTF-8), possibly empty
Passphrases == { <<>>, <<116>>, <<116, 255>> }

\* seeds the random generator may produce for the salt and for the nonce
SaltSeeds == {1, 2}
NonceSeeds == {3, 4}

\* how many times a running operation may be killed in one behaviour
MaxKills == 1

\* passphrases, plaintext files and random draws of the file operations
FilePassphrases == { <<116>>, <<116, 255>> }
FilePlaintexts == { <<>>, <<104, 105>> }
FileSeeds == { <<1, 3>>, <<2, 4>> }

\* processes running file operations; the sequential specification runs one
Procs == {1, 2}
SeqProcs == {1}

(***************************************************************************)
(* Program constants.                                                      *)
(***************************************************************************)
SALT_LEN == 8
NONCE_LEN == 24
KEY_LEN == 32
TAG_LEN == 16
I64_LEN == 8

\* "saltybox"
MAGIC_PREFIX == <<115, 97, 108, 116, 121, 98, 111, 120>>
\* "saltybox1:"
V1_MAGIC == <<115, 97, 108, 116, 121, 98, 111, 120, 49, 58>>

(***************************************************************************)
(* Sequences of bytes.                                                     *)
(***************************************************************************)
Byte == 0..255

Take(s, n) == SubSeq(s, 1, n)

Drop(s, n) == SubSeq(s, n + 1, Len(s))

StartsWith(s, prefix) ==
    /\ Len(s) >= Len(prefix)
    /\ Take(s, Len(prefix)) = prefix

RECURSIVE SeqsUpTo(_, _)
SeqsUpTo(S, n) ==
    IF n = 0 THEN { <<>> }
    ELSE LET shorter == SeqsUpTo(S, n - 1)
         IN  shorter \cup { Append(s, b) : s \in { t \in shorter : Len(t) = n - 1 }, b \in S }

RECURSIVE Xor(_, _)
Xor(a, b) ==
    IF a = 0 THEN b
    ELSE IF b = 0 THEN a
    ELSE (((a % 2) + (b % 2)) % 2) + (2 * Xor(a \div 2, b \div 2))

RECURSIVE Pow2(_)
Pow2(k) == IF k = 0 THEN 1 ELSE 2 * Pow2(k - 1)

\* the sequence s with bit `bit` (0..7) of the byte at position pos flipped
FlipBit(s, pos, bit) == [s EXCEPT ![pos] = Xor(s[pos], Pow2(bit))]

\* what the random generator returns for a seed: n bytes
RandomBytes(seed, n) == [i \in 1..n |-> (seed * 37 + i * 11) % 256]

(***************************************************************************)
(* Results: Ok(v) or Err(e), as Rust's Result.                             *)
(***************************************************************************)
Ok(v) == [ok |-> TRUE, val |-> v]

Err(e) == [ok |-> FALSE, err |-> e]

(***************************************************************************)
(* The library primitives (scrypt, XSalsa20-Poly1305).                     *)
(***************************************************************************)
\* the polynomial with coefficients s[lo..hi] (each plus one) at the point
\* r, modulo the prime 32749, together with r^(hi - lo + 1); the range is
\* halved at each level, which keeps the evaluation shallow
RECURSIVE PolyRange(_, _, _, _)
PolyRange(s, lo, hi, r) ==
    IF lo > hi THEN [v |-> 0, w |-> 1]
    ELSE IF lo = hi THEN [v |-> ((s[lo] + 1) * r) % 32749, w |-> r]
    ELSE LET left  == PolyRange(s, lo, (lo + hi) \div 2, r)
             right == PolyRange(s, ((lo + hi) \div 2) + 1, hi, r)
         IN  [v |-> ((left.v * right.w) + right.v) % 32749,
              w |-> (left.w * right.w) % 32749]

\* a digest of the bytes s, started from h, taken at the point r
Digest(s, h, r) ==
    LET poly == PolyRange(s, 1, Len(s), r)
    IN  (((((h % 32749) * poly.w) % 32749) * 551) + poly.v) % 32749

\* scrypt(passphrase, salt, params, &mut key): deterministic, KEY_LEN bytes
\* that carry two independent digests of passphrase and salt
scrypt(passphrase, salt) ==
    LET h1 == Digest(passphrase \o salt, 7, 257)
        h2 == Digest(passphrase \o salt, 5, 263)
    IN  [i \in 1..KEY_LEN |->
            CASE i = 1 -> h1 % 256
              [] i = 2 -> h1 \div 256
              [] i = 3 -> h2 % 256
              [] i = 4 -> h2 \div 256
              [] OTHER -> (((h1 + i) * (h2 + (3 * i))) \div 7) % 256]

\* the subkey XSalsa20 derives from the key and the nonce
SubKey(key, nonce) ==
    [a |-> Digest(key \o nonce, 11, 257), b |-> Digest(key \o nonce, 3, 263)]

\* the keystream byte at position i
Keystream(subkey, i) ==
    Digest(<<i % 256, i \div 256, subkey.b % 256, subkey.b \div 256>>, subkey.a, 257) % 256

\* the one-time authenticator over the ciphertext, keyed from the start of
\* the keystream: TAG_LEN bytes that carry two polynomials of the ciphertext
Poly1305Tag(subkey, ct) ==
    LET r1 == 1 + (Digest(<<13>>, subkey.a, 257) % 32748)
        r2 == 1 + (Digest(<<13>>, subkey.b, 263) % 32748)
        t1 == (PolyRange(ct, 1, Len(ct), r1).v + Digest(<<17>>, subkey.b, 257)) % 32749
        t2 == (PolyRange(ct, 1, Len(ct), r2).v + Digest(<<17>>, subkey.a, 263)) % 32749
    IN  [j \in 1..TAG_LEN |->
            CASE j = 1 -> t1 % 256
              [] j = 2 -> t1 \div 256
              [] j = 3 -> t2 % 256
              [] j = 4 -> t2 \div 256
              [] OTHER -> (((t1 + j) * (t2 + (3 * j))) \div 7) % 256]

\* cipher.encrypt(nonce, plaintext): the NaCl secretbox, tag first
secretbox_seal(key, nonce, plaintext) ==
    LET subkey == SubKey(key, nonce)
        ct     == [i \in 1..Len(plaintext) |-> Xor(plaintext[i], Keystream(subkey, i))]
    IN  Poly1305Tag(subkey, ct \o <<>>) \o ct

\* cipher.decrypt(nonce, sealed): the plaintext, or one opaque aead::Error
secretbox_open(key, nonce, sealed) ==
    IF Len(sealed) < TAG_LEN THEN Err("aead::Error")
    ELSE LET subkey == SubKey(key, nonce)
             tag    == Take(sealed, TAG_LEN)
             ct     == Drop(sealed, TAG_LEN)
         IN  IF Poly1305Tag(subkey, ct) # tag THEN Err("aead::Error")
             ELSE Ok([i \in 1..Len(ct) |-> Xor(ct[i], Keystream(subkey, i))])

(***************************************************************************)
(* secretcrypt: the binary envelope                                        *)
(*     salt(8) | nonce(24) | length(8, big-endian i64) | sealed box        *)
(***************************************************************************)
\* a key derivation that leaves the passphrase out
derive_key_SaltOnly(passphrase, salt) == scrypt(<<>>, salt)

derive_key(passphrase, salt) == scrypt(passphrase, salt)

\* i64::to_be_bytes of a length below 2^24
i64_to_be_bytes(n) ==
    <<0, 0, 0, 0, 0, n \div 65536, (n \div 256) % 256, n % 256>>

\* i64::from_be_bytes, kept in a form that never leaves the range of the
\* checker's integers: the sign, whether the value is 2^24 or more, whether
\* it is 2^31 or more, and its low 24 bits
i64_from_be_bytes(b) ==
    [ neg  |-> b[1] >= 128,
      big  |-> \E i \in 1..5 : b[i] # 0,
      wide |-> (\E i \in 1..4 : b[i] # 0) \/ b[5] >= 128,
      low  |-> (b[6] * 65536) + (b[7] * 256) + b[8] ]

\* v > n, for a non-negative v and an n below 2^24
I64Greater(v, n) == v.big \/ v.low > n

\* the pointer widths of the targets the crate is built for
TargetWidths == {32, 64}

\* a build without the platform check: no length is above the maximum
I64ExceedsIsize_Never(width, v) == FALSE

\* sealed_box_len > isize::MAX as i64, for a non-negative sealed_box_len: on
\* a 64-bit target no i64 is, on a 32-bit target the values from 2^31 on are
I64ExceedsIsize(width, v) == width = 32 /\ v.wide

\* an envelope whose length field counts the plaintext, not the sealed box
encrypt_deterministic_PlainLen(passphrase, plaintext, salt, nonce) ==
    LET key        == derive_key(passphrase, salt)
        sealed_box == secretbox_seal(key, nonce, plaintext)
    IN  Ok(salt \o nonce \o i64_to_be_bytes(Len(plaintext)) \o sealed_box)

encrypt_deterministic(passphrase, plaintext, salt, nonce) ==
    LET key        == derive_key(passphrase, salt)
        sealed_box == secretbox_seal(key, nonce, plaintext)
    IN  Ok(salt \o nonce \o i64_to_be_bytes(Len(sealed_box)) \o sealed_box)

\* encrypt with the salt and the nonce the random generator returned
encrypt(passphrase, plaintext, saltSeed, nonceSeed) ==
    encrypt_deterministic(passphrase, plaintext,
                          RandomBytes(saltSeed, SALT_LEN),
                          RandomBytes(nonceSeed, NONCE_LEN))

AuthFailedMsg == "corrupt input, tampered-with data, or bad passphrase"

\* an open that applies the keystream and never compares the tag
decrypt_open_Unverified(passphrase, salt, nonce, sealed_box) ==
    LET subkey == SubKey(derive_key(passphrase, salt), nonce)
        ct     == Drop(sealed_box, TAG_LEN)
    IN  Ok([i \in 1..Len(ct) |-> Xor(ct[i], Keystream(subkey, i))])

\* the authenticated open at the end of decrypt
decrypt_open(passphrase, salt, nonce, sealed_box) ==
    LET key == derive_key(passphrase, salt)
        res == secretbox_open(key, nonce, sealed_box)
    IN  IF res.ok THEN Ok(res.val) ELSE Err(AuthFailedMsg)

\* the bytes in front of the sealed box: salt, nonce and length field
HEADER_LEN == SALT_LEN + NONCE_LEN + I64_LEN

\* a length field read as unsigned: no value is negative
NegativeLength_Unsigned(len64) == FALSE

\* sealed_box_len < 0
NegativeLength(len64) == len64.neg

\* the declared length compared with the bytes that follow the length field
ClaimedTooLong_Remaining(len64, ciphertext) ==
    I64Greater(len64, Len(ciphertext) - HEADER_LEN)

\* sealed_box_len > ciphertext.len(): the declared length is compared with
\* the length of the whole input
ClaimedTooLong(len64, ciphertext) == I64Greater(len64, Len(ciphertext))

\* a check for left-over bytes that never finds any
TrailingBytes_Ignored(pos, ciphertext) == FALSE

\* pos < ciphertext.len() once the sealed box is consumed
TrailingBytes(pos, ciphertext) == pos < Len(ciphertext)

\* a result of decrypt together with whether it derived the key
Traced(res, kdf) == [res |-> res, kdf |-> kdf]

\* a decrypt that derives the key as soon as it has read the salt, before it
\* looks at the length field
decrypt_traced_KeyFirst(width, passphrase, ciphertext) ==
    IF Len(ciphertext) < SALT_LEN
    THEN Traced(Err("input likely truncated while reading salt"), FALSE)
    ELSE IF Len(ciphertext) < SALT_LEN + NONCE_LEN
    THEN Traced(Err("input likely truncated while reading nonce"), FALSE)
    ELSE IF Len(ciphertext) < SALT_LEN + NONCE_LEN + I64_LEN
    THEN Traced(Err("input likely truncated while reading sealed box"), FALSE)
    ELSE
    LET salt  == SubSeq(ciphertext, 1, SALT_LEN)
        nonce == SubSeq(ciphertext, SALT_LEN + 1, SALT_LEN + NONCE_LEN)
        pos   == SALT_LEN + NONCE_LEN + I64_LEN
        len64 == i64_from_be_bytes(SubSeq(ciphertext, SALT_LEN + NONCE_LEN + 1, pos))
    IN  IF NegativeLength(len64)
        THEN Traced(Err("negative sealed box length (when interpreted as a big-endian i64)"), TRUE)
        ELSE IF I64ExceedsIsize(width, len64)
        THEN Traced(Err("sealed box length exceeds this system's max isize"), TRUE)
        ELSE IF ClaimedTooLong(len64, ciphertext)
        THEN Traced(Err("truncated or corrupt input; claimed length greater than available input"), TRUE)
        ELSE IF Len(ciphertext) < pos + len64.low
        THEN Traced(Err("truncated or corrupt input (while reading sealed box)"), TRUE)
        ELSE IF TrailingBytes(pos + len64.low, ciphertext)
        THEN Traced(Err("invalid input: unexpected data after sealed box"), TRUE)
        ELSE Traced(decrypt_open(passphrase, salt, nonce,
                                 SubSeq(ciphertext, pos + 1, pos + len64.low)), TRUE)

\* decrypt as built for a target of the given pointer width: what it
\* returns, and whether it got as far as the key derivation in front of the
\* open of the sealed box
decrypt_traced(width, passphrase, ciphertext) ==
    IF Len(ciphertext) < SALT_LEN
    THEN Traced(Err("input likely truncated while reading salt"), FALSE)
    ELSE IF Len(ciphertext) < SALT_LEN + NONCE_LEN
    THEN Traced(Err("input likely truncated while reading nonce"), FALSE)
    ELSE IF Len(ciphertext) < SALT_LEN + NONCE_LEN + I64_LEN
    THEN Traced(Err("input likely truncated while reading sealed box"), FALSE)
    ELSE
    LET salt  == SubSeq(ciphertext, 1, SALT_LEN)
        nonce == SubSeq(ciphertext, SALT_LEN + 1, SALT_LEN + NONCE_LEN)
        pos   == SALT_LEN + NONCE_LEN + I64_LEN
        len64 == i64_from_be_bytes(SubSeq(ciphertext, SALT_LEN + NONCE_LEN + 1, pos))
    IN  IF NegativeLength(len64)
        THEN Traced(Err("negative sealed box length (when interpreted as a big-endian i64)"), FALSE)
        ELSE IF I64ExceedsIsize(width, len64)
        THEN Traced(Err("sealed box length exceeds this system's max isize"), FALSE)
        ELSE IF ClaimedTooLong(len64, ciphertext)
        THEN Traced(Err("truncated or corrupt input; claimed length greater than available input"), FALSE)
        ELSE IF Len(ciphertext) < pos + len64.low
        THEN Traced(Err("truncated or corrupt input (while reading sealed box)"), FALSE)
        ELSE IF TrailingBytes(pos + len64.low, ciphertext)
        THEN Traced(Err("invalid input: unexpected data after sealed box"), FALSE)
        ELSE Traced(decrypt_open(passphrase, salt, nonce,
                                 SubSeq(ciphertext, pos + 1, pos + len64.low)), TRUE)

\* the value decrypt returns on a target of the given pointer width
decrypt_target(width, passphrase, ciphertext) ==
    decrypt_traced(width, passphrase, ciphertext).res

\* decrypt on the 64-bit target the file operations run on
decrypt(passphrase, ciphertext) == decrypt_target(64, passphrase, ciphertext)

(***************************************************************************)
(* varmor: "saltybox1:" followed by base64url without padding.             *)
(***************************************************************************)
\* the standard alphabet, with + and / where the URL-safe one has - and _
B64Char_Standard(v) ==
    IF v < 26 THEN 65 + v
    ELSE IF v < 52 THEN 97 + (v - 26)
    ELSE IF v < 62 THEN 48 + (v - 52)
    ELSE IF v = 62 THEN 43
    ELSE 47

\* the URL-safe alphabet: A-Z a-z 0-9 - _
B64Char(v) ==
    IF v < 26 THEN 65 + v
    ELSE IF v < 52 THEN 97 + (v - 26)
    ELSE IF v < 62 THEN 48 + (v - 52)
    ELSE IF v = 62 THEN 45
    ELSE 95

\* the values of the symbols of the standard alphabet
B64Value_Standard(c) ==
    IF c >= 65 /\ c <= 90 THEN c - 65
    ELSE IF c >= 97 /\ c <= 122 THEN (c - 97) + 26
    ELSE IF c >= 48 /\ c <= 57 THEN (c - 48) + 52
    ELSE IF c = 43 THEN 62
    ELSE IF c = 47 THEN 63
    ELSE -1

\* the value of a symbol, -1 for a byte outside the alphabet
B64Value(c) ==
    IF c >= 65 /\ c <= 90 THEN c - 65
    ELSE IF c >= 97 /\ c <= 122 THEN (c - 97) + 26
    ELSE IF c >= 48 /\ c <= 57 THEN (c - 48) + 52
    ELSE IF c = 45 THEN 62
    ELSE IF c = 95 THEN 63
    ELSE -1

\* URL_SAFE_NO_PAD.encode
B64Encode(body) ==
    LET n    == Len(body)
        B(j) == IF j <= n THEN body[j] ELSE 0
    IN  [i \in 1..(((n * 4) + 2) \div 3) |->
            LET g  == (i - 1) \div 4
                k  == (i - 1) % 4
                b0 == B((3 * g) + 1)
                b1 == B((3 * g) + 2)
                b2 == B((3 * g) + 3)
            IN  B64Char(CASE k = 0 -> b0 \div 4
                          [] k = 1 -> ((b0 % 4) * 16) + (b1 \div 16)
                          [] k = 2 -> ((b1 % 16) * 4) + (b2 \div 64)
                          [] k = 3 -> b2 % 64)]

\* URL_SAFE_NO_PAD.decode: no padding accepted, no symbol outside the
\* alphabet, no impossible length, no non-zero trailing bits
B64Decode(text) ==
    LET n    == Len(text)
        V(j) == B64Value(text[j])
    IN  IF \E j \in 1..n : V(j) < 0 THEN Err("Invalid byte")
        ELSE IF n % 4 = 1 THEN Err("Invalid input length")
        ELSE IF n % 4 = 2 /\ V(n) % 16 # 0 THEN Err("Invalid last symbol")
        ELSE IF n % 4 = 3 /\ V(n) % 4 # 0 THEN Err("Invalid last symbol")
        ELSE Ok([j \in 1..((n * 3) \div 4) |->
                    LET g  == (j - 1) \div 3
                        k  == (j - 1) % 3
                        v0 == V((4 * g) + 1)
                        v1 == V((4 * g) + 2)
                    IN  CASE k = 0 -> (v0 * 4) + (v1 \div 16)
                          [] k = 1 -> ((v1 % 16) * 16) + (V((4 * g) + 3) \div 4)
                          [] k = 2 -> ((V((4 * g) + 3) % 4) * 64) + V((4 * g) + 4)])

wrap(body) == V1_MAGIC \o B64Encode(body)

\* an unwrap that knows one marker only: every other input is unrecognized
unwrap_OneMarker(armored) ==
    IF Len(armored) < Len(V1_MAGIC)
    THEN Err([kind |-> "ArmoringInvalid",
              msg  |-> "input size smaller than magic marker; likely truncated"])
    ELSE IF StartsWith(armored, V1_MAGIC)
    THEN LET body == B64Decode(Drop(armored, Len(V1_MAGIC)))
         IN  IF body.ok THEN Ok(body.val)
             ELSE Err([kind |-> "ArmoringDecode", msg |-> "base64 decoding failed"])
    ELSE Err([kind |-> "ArmoringInvalid",
              msg  |-> "input unrecognized as saltybox data"])

\* errors of unwrap: the kind and the message of the SaltyboxError
unwrap(armored) ==
    IF Len(armored) < Len(V1_MAGIC)
    THEN Err([kind |-> "ArmoringInvalid",
              msg  |-> "input size smaller than magic marker; likely truncated"])
    ELSE IF StartsWith(armored, V1_MAGIC)
    THEN LET body == B64Decode(Drop(armored, Len(V1_MAGIC)))
         IN  IF body.ok THEN Ok(body.val)
             ELSE Err([kind |-> "ArmoringDecode", msg |-> "base64 decoding failed"])
    ELSE IF StartsWith(armored, MAGIC_PREFIX)
    THEN Err([kind |-> "ArmoringFromFuture",
              msg  |-> "input claims to be saltybox, but not a version we support"])
    ELSE Err([kind |-> "ArmoringInvalid",
              msg  |-> "input unrecognized as saltybox data"])

(***************************************************************************)
(* error: SaltyboxError.  The source chain is kept as the messages of the  *)
(* wrapped errors, outermost first.                                        *)
(***************************************************************************)
NoKind == "None"

SaltyboxError_new(category, msg) ==
    [category |-> category, kind |-> NoKind, msg |-> msg, chain |-> <<>>]

with_kind(category, kind, msg) ==
    [category |-> category, kind |-> kind, msg |-> msg, chain |-> <<>>]

with_kind_and_source(category, kind, msg, source) ==
    [category |-> category, kind |-> kind, msg |-> msg, chain |-> <<source>>]

\* a wrapping that keeps the category and the source and loses the kind
with_context_KindLost(e, msg) ==
    [category |-> e.category, kind |-> NoKind, msg |-> msg,
     chain |-> <<e.msg>> \o e.chain]

with_context(e, msg) ==
    [category |-> e.category, kind |-> e.kind, msg |-> msg,
     chain |-> <<e.msg>> \o e.chain]

\* the kind carried by each error of secretcrypt::decrypt
SecretcryptKind(msg) ==
    CASE msg = AuthFailedMsg -> "AuthenticationFailed"
      [] msg = "input likely truncated while reading salt" -> "TruncatedInput"
      [] msg = "input likely truncated while reading nonce" -> "TruncatedInput"
      [] msg = "input likely truncated while reading sealed box" -> "TruncatedInput"
      [] msg = "truncated or corrupt input (while reading sealed box)" -> "TruncatedInput"
      [] msg = "invalid input: unexpected data after sealed box" -> "TrailingData"
      [] OTHER -> "BinaryFormat"

\* an error of secretcrypt as the SaltyboxError file_ops receives
SecretcryptError(msg) == with_kind("User", SecretcryptKind(msg), msg)

\* the error of secretcrypt::encrypt when the key derivation fails
EncryptFailure == with_kind("Internal", "ScryptFailure", "scrypt key derivation failed")

\* unwrap as file_ops calls it: its error is a SaltyboxError
varmor_unwrap(armored) ==
    LET r == unwrap(armored)
    IN  IF r.ok THEN r ELSE Err(with_kind("User", r.err.kind, r.err.msg))

\* decrypt as file_ops calls it
secretcrypt_decrypt(passphrase, ciphertext) ==
    LET r == decrypt(passphrase, ciphertext)
    IN  IF r.ok THEN r ELSE Err(SecretcryptError(r.err))

(***************************************************************************)
(* String::from_utf8: is the byte sequence well-formed UTF-8               *)
(***************************************************************************)
IsCont(b) == b >= 128 /\ b <= 191

\* number of continuation bytes a lead byte asks for, -1 for no lead byte
Utf8Need(b) ==
    IF b >= 194 /\ b <= 223 THEN 1
    ELSE IF b >= 224 /\ b <= 239 THEN 2
    ELSE IF b >= 240 /\ b <= 244 THEN 3
    ELSE -1

\* the narrower range of the byte that follows the leads E0, ED, F0, F4
Utf8SecondOk(lead, b) ==
    CASE lead = 224 -> b >= 160 /\ b <= 191
      [] lead = 237 -> b >= 128 /\ b <= 159
      [] lead = 240 -> b >= 144 /\ b <= 191
      [] lead = 244 -> b >= 128 /\ b <= 143
      [] OTHER -> IsCont(b)

IsUtf8(s) ==
    \A i \in 1..Len(s) :
        \/ s[i] < 128
        \/ /\ Utf8Need(s[i]) > 0
           /\ i + Utf8Need(s[i]) <= Len(s)
           /\ Utf8SecondOk(s[i], s[i + 1])
           /\ \A k \in 2..Utf8Need(s[i]) : IsCont(s[i + k])
        \/ /\ IsCont(s[i])
           /\ \E k \in 1..3 :
                 /\ i - k >= 1
                 /\ Utf8Need(s[i - k]) >= k
                 /\ \A m \in 1..(k - 1) : IsCont(s[i - m])

(***************************************************************************)
(* file_ops: the file system and the running operations.                   *)
(***************************************************************************)
MODE_0600 == 384
MODE_0644 == 420

Paths == {"plain", "crypt", "out"}

NoFile == [exists |-> FALSE, content |-> <<>>, mode |-> 0]

File(content, mode) == [exists |-> TRUE, content |-> content, mode |-> mode]

\* the output path of an operation
Dest(o) == IF o = "decrypt_file" THEN "out" ELSE "crypt"

\* contents an editor, a transfer or a disk may leave in the encrypted file
CorruptFiles ==
    { <<255, 254>>,
      <<115, 97, 108, 116, 121, 98, 111, 120, 57, 58, 65, 65>>,
      <<104, 101, 108, 108, 111, 32, 119, 111, 114, 108, 100>>,
      V1_MAGIC \o <<36, 36>>,
      wrap(<<1, 2, 3>>),
      wrap(FlipBit(encrypt(<<116>>, <<104, 105>>, 1, 3).val, 41, 0)) }

VARIABLES
    files,      \* path -> file (exists, content, mode)
    temp,       \* process -> its NamedTempFile in the destination directory
    stray,      \* number of temporary files left behind by killed processes
    pc,         \* process -> the step it is at
    op,         \* process -> the operation it runs
    reader,     \* process -> what its passphrase reader returns
    loc,        \* process -> the local variables of the operation
    result,     \* process -> what the operation returned
    steps,      \* process -> the steps the current call has completed
    faulted,    \* process -> an I/O fault was injected into the current call
    atCall,     \* process -> the destination file and its protection at call
    prot,       \* the passphrase the encrypted file was created under
    lastUpd,    \* the last successful update of the encrypted file
    kills,      \* number of kills so far
    cx          \* the state of the codec specification

vars == <<files, temp, stray, pc, op, reader, loc, result, steps, faulted,
          atCall, prot, lastUpd, kills, cx>>

NoError == [category |-> "", kind |-> NoKind, msg |-> "", chain |-> <<>>]

NoResult == [status |-> "none", err |-> NoError]

NoLoc == [passphrase |-> <<>>, armored |-> <<>>, plaintext |-> <<>>,
          contents |-> <<>>, haveContents |-> FALSE,
          preads |-> 0, authPass |-> <<>>, encPass |-> <<>>]

NoProt == [set |-> FALSE, pass |-> <<>>, plain |-> <<>>]

NoUpd == [set |-> FALSE, pass |-> <<>>, plain |-> <<>>, prev |-> <<>>]

NoCx == [stage |-> "off"]

Idle(p) == pc[p] \in {"idle", "done", "killed"}

InitFiles ==
    /\ files = [f \in Paths |-> NoFile]
    /\ temp = [p \in Procs |-> NoFile]
    /\ stray = 0
    /\ pc = [p \in Procs |-> "idle"]
    /\ op = [p \in Procs |-> "none"]
    /\ reader = [p \in Procs |-> <<>>]
    /\ loc = [p \in Procs |-> NoLoc]
    /\ result = [p \in Procs |-> NoResult]
    /\ steps = [p \in Procs |-> <<>>]
    /\ faulted = [p \in Procs |-> FALSE]
    /\ atCall = [p \in Procs |-> [dest |-> NoFile, prot |-> NoProt]]
    /\ prot = NoProt
    /\ lastUpd = NoUpd
    /\ kills = 0

Init == InitFiles /\ cx = NoCx

\* the step `step` is done, the operation goes on at `label`
Goto(p, label, step) ==
    /\ pc' = [pc EXCEPT ![p] = label]
    /\ steps' = [steps EXCEPT ![p] = Append(@, step)]
    /\ UNCHANGED result

\* the operation returns Err(e) from the step `step`
ReturnErr(p, step, e) ==
    /\ pc' = [pc EXCEPT ![p] = "done"]
    /\ steps' = [steps EXCEPT ![p] = Append(@, step \o "!")]
    /\ result' = [result EXCEPT ![p] = [status |-> "err", err |-> e]]

\* the operation returns Ok(())
ReturnOk(p, step) ==
    /\ pc' = [pc EXCEPT ![p] = "done"]
    /\ steps' = [steps EXCEPT ![p] = Append(@, step)]
    /\ result' = [result EXCEPT ![p] = [status |-> "ok", err |-> NoError]]

Fault(p, b) == faulted' = [faulted EXCEPT ![p] = @ \/ b]

\* the outcomes of fs::read(path): the content, NotFound for a missing file,
\* or any other I/O error
FsRead(path) ==
    (IF files[path].exists THEN { Ok(files[path].content) } ELSE { Err("NotFound") })
        \cup { Err("Other") }

read_error(path, cause) ==
    with_kind_and_source(IF cause = "NotFound" THEN "User" ELSE "Internal",
                         "Io", "failed to read from " \o path, "io::Error")

\* what the passphrase source answers when it is asked again: a value that
\* differs from its first answer
SecondAnswer(K) == CHOOSE K2 \in FilePassphrases : K2 # K

\* the outcomes of read_passphrase: the passphrase or the reader's error;
\* loc[p].preads counts the reads the current call has made, and a source
\* that is read again answers with another value
ReadPassphrase(p) ==
    { Ok(IF loc[p].preads = 0 THEN reader[p] ELSE SecondAnswer(reader[p])),
      Err(with_kind("User", "PassphraseUnavailable",
                    "cannot read passphrase from terminal - stdin is not a terminal")) }

\* write_all on the temporary file: the lengths a write may stop at
WriteCuts(contents) == { n \in {1, Len(contents) \div 2} : n < Len(contents) }

\* a caller starts operation o; its reader will return passphrase K, and for
\* encrypt and update the plaintext file holds P
Call(p, o, K, P) ==
    /\ Idle(p)
    /\ ~temp[p].exists
    /\ pc' = [pc EXCEPT ![p] = CASE o = "encrypt_file" -> "e_read_plain"
                                 [] o = "decrypt_file" -> "d_read_crypt"
                                 [] o = "update_file"  -> "u_read_crypt"]
    /\ op' = [op EXCEPT ![p] = o]
    /\ reader' = [reader EXCEPT ![p] = K]
    /\ files' = IF o = "decrypt_file" THEN files
                ELSE [files EXCEPT !["plain"] = File(P, MODE_0644)]
    /\ loc' = [loc EXCEPT ![p] = NoLoc]
    /\ result' = [result EXCEPT ![p] = NoResult]
    /\ steps' = [steps EXCEPT ![p] = <<>>]
    /\ faulted' = [faulted EXCEPT ![p] = FALSE]
    /\ atCall' = [atCall EXCEPT ![p] = [dest |-> files[Dest(o)], prot |-> prot]]
    /\ UNCHANGED <<temp, stray, prot, lastUpd, kills, cx>>

(***************************************************************************)
(* update_file(plain_path, crypt_path, passphrase_reader)                  *)
(***************************************************************************)
\* fs::read(crypt_path) and String::from_utf8
UReadCrypt(p) ==
    /\ pc[p] = "u_read_crypt"
    /\ \E r \in FsRead("crypt") :
          IF ~r.ok
          THEN /\ ReturnErr(p, "read_crypt", read_error("crypt", r.err))
               /\ Fault(p, r.err = "Other")
               /\ UNCHANGED loc
          ELSE IF ~IsUtf8(r.val)
          THEN /\ ReturnErr(p, "utf8",
                     with_kind_and_source("User", "Io",
                         "encrypted file is not valid UTF-8", "FromUtf8Error"))
               /\ UNCHANGED <<loc, faulted>>
          ELSE /\ loc' = [loc EXCEPT ![p].armored = r.val]
               /\ Goto(p, "u_passphrase", "read_crypt")
               /\ UNCHANGED faulted
    /\ UNCHANGED <<files, temp, stray, op, reader, atCall, prot, lastUpd, kills, cx>>

\* passphrase_reader.read_passphrase()?
UPassphrase(p) ==
    /\ pc[p] = "u_passphrase"
    /\ \E r \in ReadPassphrase(p) :
          IF ~r.ok
          THEN /\ ReturnErr(p, "passphrase", r.err)
               /\ Fault(p, TRUE)
               /\ loc' = [loc EXCEPT ![p].preads = @ + 1]
          ELSE /\ loc' = [loc EXCEPT ![p].passphrase = r.val,
                                     ![p].preads = @ + 1]
               /\ Goto(p, "u_validate", "passphrase")
               /\ UNCHANGED faulted
    /\ UNCHANGED <<files, temp, stray, op, reader, atCall, prot, lastUpd, kills, cx>>

\* a phase 1 that unarmors the existing file and never opens it
UValidate_UnarmorOnly(p) ==
    /\ pc[p] = "u_validate"
    /\ LET u == varmor_unwrap(loc[p].armored)
       IN  IF ~u.ok
           THEN ReturnErr(p, "unarmor", with_context(u.err, "failed to unarmor"))
           ELSE Goto(p, "u_tempfile", "validate")
    /\ UNCHANGED <<files, temp, stray, op, reader, loc, faulted, atCall, prot,
                   lastUpd, kills, cx>>

\* phase 1: unarmor the existing file and open it with the passphrase; the
\* plaintext is discarded
UValidate(p) ==
    /\ pc[p] = "u_validate"
    /\ LET u == varmor_unwrap(loc[p].armored)
       IN  IF ~u.ok
           THEN /\ ReturnErr(p, "unarmor", with_context(u.err, "failed to unarmor"))
                /\ UNCHANGED loc
           ELSE LET d == secretcrypt_decrypt(loc[p].passphrase, u.val)
                IN  IF ~d.ok
                    THEN /\ ReturnErr(p, "decrypt", with_context(d.err, "failed to decrypt"))
                         /\ UNCHANGED loc
                    ELSE /\ loc' = [loc EXCEPT ![p].authPass = loc[p].passphrase]
                         /\ Goto(p, "u_tempfile", "validate")
    /\ UNCHANGED <<files, temp, stray, op, reader, faulted, atCall, prot,
                   lastUpd, kills, cx>>

\* tempfile::Builder ... tempfile_in(crypt_dir)
UTempfile(p) ==
    /\ pc[p] = "u_tempfile"
    /\ \/ /\ temp' = [temp EXCEPT ![p] = File(<<>>, MODE_0600)]
          /\ Goto(p, "u_read_plain", "tempfile")
          /\ UNCHANGED faulted
       \/ /\ ReturnErr(p, "tempfile",
                with_kind_and_source("Internal", "Io", "failed to create tempfile", "io::Error"))
          /\ Fault(p, TRUE)
          /\ UNCHANGED temp
    /\ UNCHANGED <<files, stray, op, reader, loc, atCall, prot, lastUpd, kills, cx>>

\* fs::read(plain_path)
UReadPlain(p) ==
    /\ pc[p] = "u_read_plain"
    /\ \E r \in FsRead("plain") :
          IF ~r.ok
          THEN /\ ReturnErr(p, "read_plain", read_error("plain", r.err))
               /\ Fault(p, TRUE)
               /\ temp' = [temp EXCEPT ![p] = NoFile]
               /\ UNCHANGED loc
          ELSE /\ loc' = [loc EXCEPT ![p].plaintext = r.val]
               /\ Goto(p, "u_encrypt", "read_plain")
               /\ UNCHANGED <<temp, faulted>>
    /\ UNCHANGED <<files, stray, op, reader, atCall, prot, lastUpd, kills, cx>>

\* an update that seals the plaintext phase 1 opened, not the new one
UEncrypt_OldPlaintext(p) ==
    /\ pc[p] = "u_encrypt"
    /\ \E seed \in FileSeeds :
          loc' = [loc EXCEPT
                    ![p].contents =
                        wrap(encrypt(loc[p].passphrase,
                                     decrypt(loc[p].passphrase, unwrap(loc[p].armored).val).val,
                                     seed[1], seed[2]).val),
                    ![p].haveContents = TRUE,
                    ![p].encPass = loc[p].passphrase]
    /\ Goto(p, "u_write", "encrypt")
    /\ UNCHANGED <<files, temp, stray, op, reader, faulted, atCall, prot, lastUpd,
                   kills, cx>>

\* an update that asks the passphrase source again for phase 2
UEncrypt_Reread(p) ==
    /\ pc[p] = "u_encrypt"
    /\ \E r \in { x \in ReadPassphrase(p) : x.ok } :
       \/ /\ \E seed \in FileSeeds :
                loc' = [loc EXCEPT
                          ![p].contents = wrap(encrypt(r.val, loc[p].plaintext,
                                                       seed[1], seed[2]).val),
                          ![p].haveContents = TRUE,
                          ![p].preads = @ + 1,
                          ![p].encPass = r.val]
          /\ Goto(p, "u_write", "encrypt")
          /\ UNCHANGED <<temp, faulted>>
       \/ /\ ReturnErr(p, "encrypt", with_context(EncryptFailure, "failed to encrypt"))
          /\ Fault(p, TRUE)
          /\ temp' = [temp EXCEPT ![p] = NoFile]
          /\ UNCHANGED loc
    /\ UNCHANGED <<files, stray, op, reader, atCall, prot, lastUpd, kills, cx>>

\* secretcrypt::encrypt with a fresh salt and nonce, then varmor::wrap
UEncrypt(p) ==
    /\ pc[p] = "u_encrypt"
    /\ \/ /\ \E seed \in FileSeeds :
                loc' = [loc EXCEPT
                          ![p].contents = wrap(encrypt(loc[p].passphrase, loc[p].plaintext,
                                                       seed[1], seed[2]).val),
                          ![p].haveContents = TRUE,
                          ![p].encPass = loc[p].passphrase]
          /\ Goto(p, "u_write", "encrypt")
          /\ UNCHANGED <<temp, faulted>>
       \/ /\ ReturnErr(p, "encrypt", with_context(EncryptFailure, "failed to encrypt"))
          /\ Fault(p, TRUE)
          /\ temp' = [temp EXCEPT ![p] = NoFile]
          /\ UNCHANGED loc
    /\ UNCHANGED <<files, stray, op, reader, atCall, prot, lastUpd, kills, cx>>

\* a write that goes to the encrypted file itself, as an in-place rewrite does
UWrite_InPlace(p) ==
    /\ pc[p] = "u_write"
    /\ \/ /\ \E n \in WriteCuts(loc[p].contents) :
                /\ Len(temp[p].content) < n
                /\ temp' = [temp EXCEPT ![p].content = Take(loc[p].contents, n)]
          /\ UNCHANGED <<pc, steps, result, faulted>>
       \/ /\ temp' = [temp EXCEPT ![p].content = loc[p].contents]
          /\ Goto(p, "u_flush", "write")
          /\ UNCHANGED faulted
       \/ /\ ReturnErr(p, "write",
                with_kind_and_source("Internal", "Io", "failed to write to tempfile", "io::Error"))
          /\ Fault(p, TRUE)
          /\ temp' = [temp EXCEPT ![p] = NoFile]
    /\ files' = [files EXCEPT !["crypt"] = IF temp'[p].exists THEN temp'[p] ELSE @]
    /\ UNCHANGED <<stray, op, reader, loc, atCall, prot, lastUpd, kills, cx>>

\* temp_file.write_all(new_armored): some bytes, all bytes, or an error
UWrite(p) ==
    /\ pc[p] = "u_write"
    /\ \/ /\ \E n \in WriteCuts(loc[p].contents) :
                /\ Len(temp[p].content) < n
                /\ temp' = [temp EXCEPT ![p].content = Take(loc[p].contents, n)]
          /\ UNCHANGED <<pc, steps, result, faulted>>
       \/ /\ temp' = [temp EXCEPT ![p].content = loc[p].contents]
          /\ Goto(p, "u_flush", "write")
          /\ UNCHANGED faulted
       \/ /\ ReturnErr(p, "write",
                with_kind_and_source("Internal", "Io", "failed to write to tempfile", "io::Error"))
          /\ Fault(p, TRUE)
          /\ temp' = [temp EXCEPT ![p] = NoFile]
    /\ UNCHANGED <<files, stray, op, reader, loc, atCall, prot, lastUpd, kills, cx>>

\* a flush whose failure returns with the temporary file kept on disk, as a
\* file opened by hand and never removed would be
UFlush_TempKept(p) ==
    /\ pc[p] = "u_flush"
    /\ \/ /\ Goto(p, "u_sync", "flush")
          /\ UNCHANGED faulted
       \/ /\ ReturnErr(p, "flush",
                with_kind_and_source("Internal", "Io", "failed to flush tempfile", "io::Error"))
          /\ Fault(p, TRUE)
    /\ UNCHANGED <<files, temp, stray, op, reader, loc, atCall, prot, lastUpd, kills, cx>>

\* a flush that is followed by the change of mode, with no sync_all
UFlush_NoSync(p) ==
    /\ pc[p] = "u_flush"
    /\ \/ /\ Goto(p, "u_chmod", "flush")
          /\ UNCHANGED <<temp, faulted>>
       \/ /\ ReturnErr(p, "flush",
                with_kind_and_source("Internal", "Io", "failed to flush tempfile", "io::Error"))
          /\ Fault(p, TRUE)
          /\ temp' = [temp EXCEPT ![p] = NoFile]
    /\ UNCHANGED <<files, stray, op, reader, loc, atCall, prot, lastUpd, kills, cx>>

\* temp_file.flush()
UFlush(p) ==
    /\ pc[p] = "u_flush"
    /\ \/ /\ Goto(p, "u_sync", "flush")
          /\ UNCHANGED <<temp, faulted>>
       \/ /\ ReturnErr(p, "flush",
                with_kind_and_source("Internal", "Io", "failed to flush tempfile", "io::Error"))
          /\ Fault(p, TRUE)
          /\ temp' = [temp EXCEPT ![p] = NoFile]
    /\ UNCHANGED <<files, stray, op, reader, loc, atCall, prot, lastUpd, kills, cx>>

\* a sync that comes after the rename instead of before it
USync_AfterRename(p) ==
    /\ pc[p] = "u_sync"
    /\ files' = [files EXCEPT !["crypt"] = temp[p]]
    /\ \/ /\ Goto(p, "u_chmod", "sync")
          /\ UNCHANGED <<temp, faulted>>
       \/ /\ ReturnErr(p, "sync",
                with_kind_and_source("Internal", "Io",
                    "failed to sync file prior to rename", "io::Error"))
          /\ Fault(p, TRUE)
          /\ temp' = [temp EXCEPT ![p] = NoFile]
    /\ UNCHANGED <<stray, op, reader, loc, atCall, prot, lastUpd, kills, cx>>

\* temp_file.as_file().sync_all()
USync(p) ==
    /\ pc[p] = "u_sync"
    /\ \/ /\ Goto(p, "u_chmod", "sync")
          /\ UNCHANGED <<temp, faulted>>
       \/ /\ ReturnErr(p, "sync",
                with_kind_and_source("Internal", "Io",
                    "failed to sync file prior to rename", "io::Error"))
          /\ Fault(p, TRUE)
          /\ temp' = [temp EXCEPT ![p] = NoFile]
    /\ UNCHANGED <<files, stray, op, reader, loc, atCall, prot, lastUpd, kills, cx>>

\* metadata(), set_mode(0o600), set_permissions
UChmod(p) ==
    /\ pc[p] = "u_chmod"
    /\ \/ /\ temp' = [temp EXCEPT ![p].mode = MODE_0600]
          /\ Goto(p, "u_persist", "chmod")
          /\ UNCHANGED faulted
       \/ /\ \E msg \in {"failed to get tempfile metadata",
                         "failed to set tempfile permissions"} :
                ReturnErr(p, "chmod",
                    with_kind_and_source("Internal", "Io", msg, "io::Error"))
          /\ Fault(p, TRUE)
          /\ temp' = [temp EXCEPT ![p] = NoFile]
    /\ UNCHANGED <<files, stray, op, reader, loc, atCall, prot, lastUpd, kills, cx>>

\* an update that returns Ok with the temporary file dropped, never renamed
UPersist_Dropped(p) ==
    /\ pc[p] = "u_persist"
    /\ temp' = [temp EXCEPT ![p] = NoFile]
    /\ ReturnOk(p, "persist")
    /\ prot' = IF prot.set /\ prot.pass = loc[p].passphrase
               THEN [prot EXCEPT !.plain = loc[p].plaintext]
               ELSE prot
    /\ lastUpd' = [set |-> TRUE, pass |-> loc[p].passphrase,
                   plain |-> loc[p].plaintext, prev |-> prot.plain]
    /\ UNCHANGED <<files, faulted, stray, op, reader, loc, atCall, kills, cx>>

\* temp_file.persist(crypt_path): the rename; on failure the temporary file
\* comes back inside the PersistError, which becomes the source of the
\* returned error: it is removed when the caller drops that error
UPersist(p) ==
    /\ pc[p] = "u_persist"
    /\ \/ /\ files' = [files EXCEPT !["crypt"] = temp[p]]
          /\ temp' = [temp EXCEPT ![p] = NoFile]
          /\ ReturnOk(p, "persist")
          /\ prot' = IF prot.set /\ prot.pass = loc[p].passphrase
                     THEN [prot EXCEPT !.plain = loc[p].plaintext]
                     ELSE prot
          /\ lastUpd' = [set |-> TRUE, pass |-> loc[p].passphrase,
                         plain |-> loc[p].plaintext, prev |-> prot.plain]
          /\ UNCHANGED faulted
       \/ /\ ReturnErr(p, "persist",
                with_kind_and_source("Internal", "Io",
                    "failed to rename to target file crypt; tempfile may still exist and may need manual removal",
                    "PersistError"))
          /\ Fault(p, TRUE)
          /\ UNCHANGED <<files, temp, prot, lastUpd>>
    /\ UNCHANGED <<stray, op, reader, loc, atCall, kills, cx>>

update_file(p) ==
    \/ UReadCrypt(p)
    \/ UPassphrase(p)
    \/ UValidate(p)
    \/ UTempfile(p)
    \/ UReadPlain(p)
    \/ UEncrypt(p)
    \/ UWrite(p)
    \/ UFlush(p)
    \/ USync(p)
    \/ UChmod(p)
    \/ UPersist(p)

(***************************************************************************)
(* write_file_secure(path, contents), the tail of encrypt_file and of      *)
(* decrypt_file: path is Dest(op[p]), contents is loc[p].contents.  The    *)
(* caller wraps every error of it in "failed to write to <path>".          *)
(***************************************************************************)
WriteErr(p, category, msg, source) ==
    with_context(with_kind_and_source(category, "Io", msg, source),
                 "failed to write to " \o Dest(op[p]))

\* an output opened at the destination itself, as File::create does: the
\* destination is created or emptied before anything is written
WTempfile_AtDestination(p) ==
    /\ pc[p] = "w_tempfile"
    /\ \/ /\ temp' = [temp EXCEPT ![p] = File(<<>>, MODE_0600)]
          /\ files' = [files EXCEPT ![Dest(op[p])] = File(<<>>, MODE_0600)]
          /\ Goto(p, "w_write", "tempfile")
          /\ UNCHANGED faulted
       \/ /\ ReturnErr(p, "tempfile",
                WriteErr(p, "User", "failed to open " \o Dest(op[p]), "io::Error"))
          /\ Fault(p, TRUE)
          /\ UNCHANGED <<temp, files>>
    /\ UNCHANGED <<stray, op, reader, loc, atCall, prot, lastUpd, kills, cx>>

WTempfile(p) ==
    /\ pc[p] = "w_tempfile"
    /\ \/ /\ temp' = [temp EXCEPT ![p] = File(<<>>, MODE_0600)]
          /\ Goto(p, "w_write", "tempfile")
          /\ UNCHANGED faulted
       \/ /\ ReturnErr(p, "tempfile",
                WriteErr(p, "User", "failed to open " \o Dest(op[p]), "io::Error"))
          /\ Fault(p, TRUE)
          /\ UNCHANGED temp
    /\ UNCHANGED <<files, stray, op, reader, loc, atCall, prot, lastUpd, kills, cx>>

\* a write to a temporary file of a fixed name: every invocation that has
\* its temporary file open sees what this one writes
WWrite_SharedTemp(p) ==
    /\ pc[p] = "w_write"
    /\ \/ /\ \E n \in WriteCuts(loc[p].contents) :
                /\ Len(temp[p].content) < n
                /\ temp' = [q \in Procs |->
                              IF temp[q].exists
                              THEN [temp[q] EXCEPT !.content = Take(loc[p].contents, n)]
                              ELSE temp[q]]
          /\ UNCHANGED <<pc, steps, result, faulted>>
       \/ /\ temp' = [q \in Procs |->
                         IF temp[q].exists
                         THEN [temp[q] EXCEPT !.content = loc[p].contents]
                         ELSE temp[q]]
          /\ Goto(p, "w_flush", "write")
          /\ UNCHANGED faulted
       \/ /\ ReturnErr(p, "write",
                WriteErr(p, "Internal", "failed to write " \o Dest(op[p]), "io::Error"))
          /\ Fault(p, TRUE)
          /\ temp' = [temp EXCEPT ![p] = NoFile]
    /\ UNCHANGED <<files, stray, op, reader, loc, atCall, prot, lastUpd, kills, cx>>

WWrite(p) ==
    /\ pc[p] = "w_write"
    /\ \/ /\ \E n \in WriteCuts(loc[p].contents) :
                /\ Len(temp[p].content) < n
                /\ temp' = [temp EXCEPT ![p].content = Take(loc[p].contents, n)]
          /\ UNCHANGED <<pc, steps, result, faulted>>
       \/ /\ temp' = [temp EXCEPT ![p].content = loc[p].contents]
          /\ Goto(p, "w_flush", "write")
          /\ UNCHANGED faulted
       \/ /\ ReturnErr(p, "write",
                WriteErr(p, "Internal", "failed to write " \o Dest(op[p]), "io::Error"))
          /\ Fault(p, TRUE)
          /\ temp' = [temp EXCEPT ![p] = NoFile]
    /\ UNCHANGED <<files, stray, op, reader, loc, atCall, prot, lastUpd, kills, cx>>

WFlush(p) ==
    /\ pc[p] = "w_flush"
    /\ \/ /\ Goto(p, "w_sync", "flush")
          /\ UNCHANGED <<temp, faulted>>
       \/ /\ ReturnErr(p, "flush",
                WriteErr(p, "Internal", "failed to flush " \o Dest(op[p]), "io::Error"))
          /\ Fault(p, TRUE)
          /\ temp' = [temp EXCEPT ![p] = NoFile]
    /\ UNCHANGED <<files, stray, op, reader, loc, atCall, prot, lastUpd, kills, cx>>

WSync(p) ==
    /\ pc[p] = "w_sync"
    /\ \/ /\ Goto(p, "w_chmod", "sync")
          /\ UNCHANGED <<temp, faulted>>
       \/ /\ ReturnErr(p, "sync",
                WriteErr(p, "Internal", "failed to sync " \o Dest(op[p]), "io::Error"))
          /\ Fault(p, TRUE)
          /\ temp' = [temp EXCEPT ![p] = NoFile]
    /\ UNCHANGED <<files, stray, op, reader, loc, atCall, prot, lastUpd, kills, cx>>

WChmod(p) ==
    /\ pc[p] = "w_chmod"
    /\ \/ /\ temp' = [temp EXCEPT ![p].mode = MODE_0600]
          /\ Goto(p, "w_persist", "chmod")
          /\ UNCHANGED faulted
       \/ /\ ReturnErr(p, "chmod",
                WriteErr(p, "Internal", "failed to set tempfile permissions", "io::Error"))
          /\ Fault(p, TRUE)
          /\ temp' = [temp EXCEPT ![p] = NoFile]
    /\ UNCHANGED <<files, stray, op, reader, loc, atCall, prot, lastUpd, kills, cx>>

\* a write that goes through the destination as fs::write does: an existing
\* destination keeps the permissions it had
WPersist_KeepsMode(p) ==
    /\ pc[p] = "w_persist"
    /\ files' = [files EXCEPT ![Dest(op[p])] =
                    IF @.exists THEN [temp[p] EXCEPT !.mode = files[Dest(op[p])].mode]
                    ELSE temp[p]]
    /\ temp' = [temp EXCEPT ![p] = NoFile]
    /\ ReturnOk(p, "persist")
    /\ IF op[p] = "encrypt_file"
       THEN /\ prot' = [set |-> TRUE, pass |-> loc[p].passphrase,
                        plain |-> loc[p].plaintext]
            /\ lastUpd' = NoUpd
       ELSE UNCHANGED <<prot, lastUpd>>
    /\ UNCHANGED <<faulted, stray, op, reader, loc, atCall, kills, cx>>

\* temp_file.persist(path), then Ok(()) up to the caller of the operation
WPersist(p) ==
    /\ pc[p] = "w_persist"
    /\ \/ /\ files' = [files EXCEPT ![Dest(op[p])] = temp[p]]
          /\ temp' = [temp EXCEPT ![p] = NoFile]
          /\ ReturnOk(p, "persist")
          /\ IF op[p] = "encrypt_file"
             THEN /\ prot' = [set |-> TRUE, pass |-> loc[p].passphrase,
                              plain |-> loc[p].plaintext]
                  /\ lastUpd' = NoUpd
             ELSE UNCHANGED <<prot, lastUpd>>
          /\ UNCHANGED faulted
       \/ /\ ReturnErr(p, "persist",
                WriteErr(p, "Internal",
                    "failed to rename to target file; tempfile may still exist and may need manual removal",
                    "PersistError"))
          /\ Fault(p, TRUE)
          /\ UNCHANGED <<files, temp, prot, lastUpd>>
    /\ UNCHANGED <<stray, op, reader, loc, atCall, kills, cx>>

write_file_secure(p) ==
    \/ WTempfile(p)
    \/ WWrite(p)
    \/ WFlush(p)
    \/ WSync(p)
    \/ WChmod(p)
    \/ WPersist(p)

(***************************************************************************)
(* encrypt_file(input_path, output_path, passphrase_reader)                *)
(***************************************************************************)
EReadPlain(p) ==
    /\ pc[p] = "e_read_plain"
    /\ \E r \in FsRead("plain") :
          IF ~r.ok
          THEN /\ ReturnErr(p, "read_plain", read_error("plain", r.err))
               /\ Fault(p, TRUE)
               /\ UNCHANGED loc
          ELSE /\ loc' = [loc EXCEPT ![p].plaintext = r.val]
               /\ Goto(p, "e_passphrase", "read_plain")
               /\ UNCHANGED faulted
    /\ UNCHANGED <<files, temp, stray, op, reader, atCall, prot, lastUpd, kills, cx>>

EPassphrase(p) ==
    /\ pc[p] = "e_passphrase"
    /\ \E r \in ReadPassphrase(p) :
          IF ~r.ok
          THEN /\ ReturnErr(p, "passphrase", r.err)
               /\ Fault(p, TRUE)
               /\ loc' = [loc EXCEPT ![p].preads = @ + 1]
          ELSE /\ loc' = [loc EXCEPT ![p].passphrase = r.val,
                                     ![p].preads = @ + 1]
               /\ Goto(p, "e_encrypt", "passphrase")
               /\ UNCHANGED faulted
    /\ UNCHANGED <<files, temp, stray, op, reader, atCall, prot, lastUpd, kills, cx>>

EEncrypt(p) ==
    /\ pc[p] = "e_encrypt"
    /\ \/ /\ \E seed \in FileSeeds :
                loc' = [loc EXCEPT
                          ![p].contents = wrap(encrypt(loc[p].passphrase, loc[p].plaintext,
                                                       seed[1], seed[2]).val),
                          ![p].haveContents = TRUE]
          /\ Goto(p, "w_tempfile", "encrypt")
          /\ UNCHANGED faulted
       \/ /\ ReturnErr(p, "encrypt", with_context(EncryptFailure, "encryption failed"))
          /\ Fault(p, TRUE)
          /\ UNCHANGED loc
    /\ UNCHANGED <<files, temp, stray, op, reader, atCall, prot, lastUpd, kills, cx>>

encrypt_file(p) ==
    \/ EReadPlain(p)
    \/ EPassphrase(p)
    \/ EEncrypt(p)
    \/ (op[p] = "encrypt_file" /\ write_file_secure(p))

(***************************************************************************)
(* decrypt_file(input_path, output_path, passphrase_reader)                *)
(***************************************************************************)
DReadCrypt(p) ==
    /\ pc[p] = "d_read_crypt"
    /\ \E r \in FsRead("crypt") :
          IF ~r.ok
          THEN /\ ReturnErr(p, "read_crypt", read_error("crypt", r.err))
               /\ Fault(p, r.err = "Other")
               /\ UNCHANGED loc
          ELSE IF ~IsUtf8(r.val)
          THEN /\ ReturnErr(p, "utf8",
                     with_kind_and_source("User", "Io",
                         "input file is not valid UTF-8", "FromUtf8Error"))
               /\ UNCHANGED <<loc, faulted>>
          ELSE /\ loc' = [loc EXCEPT ![p].armored = r.val]
               /\ Goto(p, "d_passphrase", "read_crypt")
               /\ UNCHANGED faulted
    /\ UNCHANGED <<files, temp, stray, op, reader, atCall, prot, lastUpd, kills, cx>>

DPassphrase(p) ==
    /\ pc[p] = "d_passphrase"
    /\ \E r \in ReadPassphrase(p) :
          IF ~r.ok
          THEN /\ ReturnErr(p, "passphrase", r.err)
               /\ Fault(p, TRUE)
               /\ loc' = [loc EXCEPT ![p].preads = @ + 1]
          ELSE /\ loc' = [loc EXCEPT ![p].passphrase = r.val,
                                     ![p].preads = @ + 1]
               /\ Goto(p, "d_decrypt", "passphrase")
               /\ UNCHANGED faulted
    /\ UNCHANGED <<files, temp, stray, op, reader, atCall, prot, lastUpd, kills, cx>>

DDecrypt(p) ==
    /\ pc[p] = "d_decrypt"
    /\ LET u == varmor_unwrap(loc[p].armored)
       IN  IF ~u.ok
           THEN /\ ReturnErr(p, "unarmor", with_context(u.err, "failed to unarmor"))
                /\ UNCHANGED loc
           ELSE LET d == secretcrypt_decrypt(loc[p].passphrase, u.val)
                IN  IF ~d.ok
                    THEN /\ ReturnErr(p, "decrypt", with_context(d.err, "failed to decrypt"))
                         /\ UNCHANGED loc
                    ELSE /\ loc' = [loc EXCEPT ![p].plaintext = d.val,
                                               ![p].contents = d.val,
                                               ![p].haveContents = TRUE]
                         /\ Goto(p, "w_tempfile", "decrypt")
    /\ UNCHANGED <<files, temp, stray, op, reader, faulted, atCall, prot, lastUpd,
                   kills, cx>>

decrypt_file(p) ==
    \/ DReadCrypt(p)
    \/ DPassphrase(p)
    \/ DDecrypt(p)
    \/ (op[p] = "decrypt_file" /\ write_file_secure(p))

(***************************************************************************)
(* The environment of the operations.                                      *)
(***************************************************************************)
\* the caller drops the error of a failed rename: the NamedTempFile inside
\* it removes its file
DropError(p) ==
    /\ pc[p] = "done"
    /\ temp[p].exists
    /\ temp' = [temp EXCEPT ![p] = NoFile]
    /\ UNCHANGED <<files, stray, pc, op, reader, loc, result, steps, faulted,
                   atCall, prot, lastUpd, kills, cx>>

\* the process is killed between two steps, or exits while it still holds
\* the error of a failed rename: no destructor runs, its temporary file stays
Kill(p) ==
    /\ kills < MaxKills
    /\ ~Idle(p) \/ (pc[p] = "done" /\ temp[p].exists)
    /\ kills' = kills + 1
    /\ pc' = [pc EXCEPT ![p] = "killed"]
    /\ result' = [result EXCEPT ![p] = IF Idle(p) THEN @
                                       ELSE [status |-> "killed", err |-> NoError]]
    /\ stray' = IF temp[p].exists THEN stray + 1 ELSE stray
    /\ temp' = [temp EXCEPT ![p] = NoFile]
    /\ UNCHANGED <<files, op, reader, loc, steps, faulted, atCall, prot, lastUpd, cx>>

\* between operations, something else overwrites the encrypted file
Corrupt(c) ==
    /\ \A p \in Procs : Idle(p) /\ ~temp[p].exists
    /\ files["crypt"].exists
    /\ files["crypt"].content # c
    /\ files' = [files EXCEPT !["crypt"] = File(c, MODE_0644)]
    /\ prot' = NoProt
    /\ lastUpd' = NoUpd
    /\ pc' = [p \in Procs |-> "idle"]
    /\ op' = [p \in Procs |-> "none"]
    /\ result' = [p \in Procs |-> NoResult]
    /\ steps' = [p \in Procs |-> <<>>]
    /\ loc' = [p \in Procs |-> NoLoc]
    /\ faulted' = [p \in Procs |-> FALSE]
    /\ atCall' = [p \in Procs |-> [dest |-> NoFile, prot |-> NoProt]]
    /\ UNCHANGED <<temp, stray, reader, kills, cx>>

\* between operations, someone widens the permissions of an output file
\* (chmod 644)
Widen(f) ==
    /\ \A p \in Procs : Idle(p) /\ ~temp[p].exists
    /\ files[f].exists
    /\ files[f].mode # MODE_0644
    /\ files' = [files EXCEPT ![f].mode = MODE_0644]
    /\ pc' = [p \in Procs |-> "idle"]
    /\ op' = [p \in Procs |-> "none"]
    /\ result' = [p \in Procs |-> NoResult]
    /\ steps' = [p \in Procs |-> <<>>]
    /\ loc' = [p \in Procs |-> NoLoc]
    /\ faulted' = [p \in Procs |-> FALSE]
    /\ atCall' = [p \in Procs |-> [dest |-> NoFile, prot |-> NoProt]]
    /\ UNCHANGED <<temp, stray, reader, prot, lastUpd, kills, cx>>

Operations == {"encrypt_file", "decrypt_file", "update_file"}

Step(p) ==
    \/ \E o \in Operations, K \in FilePassphrases, P \in FilePlaintexts : Call(p, o, K, P)
    \/ encrypt_file(p)
    \/ decrypt_file(p)
    \/ update_file(p)
    \/ DropError(p)
    \/ Kill(p)

Next ==
    \/ \E p \in SeqProcs : Step(p)
    \/ \E c \in CorruptFiles : Corrupt(c)

Spec == Init /\ [][Next]_vars

(***************************************************************************)
(* The concurrent specification: two invocations that write the encrypted  *)
(* file, encrypt_file or update_file, run at the same time, their steps    *)
(* interleaved in any order.                                               *)
(***************************************************************************)
ConcOperations == {"encrypt_file", "update_file"}

\* the encrypted file the two invocations find: the output of an earlier
\* encrypt_file
ExistingPassphrase == <<116>>

ExistingPlaintext == <<104, 105>>

ExistingFile ==
    File(wrap(encrypt(ExistingPassphrase, ExistingPlaintext, 1, 3).val), MODE_0600)

InitConc ==
    /\ files = [f \in Paths |-> IF f = "crypt" THEN ExistingFile ELSE NoFile]
    /\ temp = [p \in Procs |-> NoFile]
    /\ stray = 0
    /\ pc = [p \in Procs |-> "idle"]
    /\ op = [p \in Procs |-> "none"]
    /\ reader = [p \in Procs |-> <<>>]
    /\ loc = [p \in Procs |-> NoLoc]
    /\ result = [p \in Procs |-> NoResult]
    /\ steps = [p \in Procs |-> <<>>]
    /\ faulted = [p \in Procs |-> FALSE]
    /\ atCall = [p \in Procs |-> [dest |-> NoFile, prot |-> NoProt]]
    /\ prot = [set |-> TRUE, pass |-> ExistingPassphrase, plain |-> ExistingPlaintext]
    /\ lastUpd = NoUpd
    /\ kills = 0
    /\ cx = NoCx

\* each of the two processes makes one invocation
Run(p) ==
    \/ /\ pc[p] = "idle"
       /\ \E o \in ConcOperations, K \in FilePassphrases, P \in FilePlaintexts :
             Call(p, o, K, P)
    \/ encrypt_file(p)
    \/ update_file(p)
    \/ DropError(p)

NextConc == \E p \in Procs : Run(p)

SpecConc == InitConc /\ [][NextConc]_vars

(***************************************************************************)
(* The permission specification: the operations run to their end, and      *)
(* between them the files are overwritten or their permissions widened.    *)
(***************************************************************************)
Operate(p) ==
    \/ \E o \in Operations, K \in FilePassphrases, P \in FilePlaintexts : Call(p, o, K, P)
    \/ encrypt_file(p)
    \/ decrypt_file(p)
    \/ update_file(p)
    \/ DropError(p)

NextPerm ==
    \/ \E p \in SeqProcs : Operate(p)
    \/ \E c \in CorruptFiles : Corrupt(c)
    \/ \E f \in {"crypt", "out"} : Widen(f)

SpecPerm == Init /\ [][NextPerm]_vars

(***************************************************************************)
(* The codec specification: one envelope is encrypted, possibly modified   *)
(* in one bit, possibly carried through the armor, and decrypted.          *)
(***************************************************************************)
Plaintexts == SeqsUpTo(PlainBytes, MaxLen)

\* the field of the envelope a byte position lies in
Region(pos) ==
    IF pos <= SALT_LEN THEN "salt"
    ELSE IF pos <= SALT_LEN + NONCE_LEN THEN "nonce"
    ELSE IF pos <= SALT_LEN + NONCE_LEN + I64_LEN THEN "length"
    ELSE IF pos <= SALT_LEN + NONCE_LEN + I64_LEN + TAG_LEN THEN "tag"
    ELSE "ciphertext"

NoRes == [ok |-> FALSE, err |-> "not called"]

InitCrypt ==
    /\ InitFiles
    /\ \E K \in Passphrases, P \in Plaintexts :
          cx = [stage |-> "start", pass |-> K, plain |-> P, orig |-> <<>>,
                bytes |-> <<>>, flip |-> "none", text |-> <<>>, dpass |-> <<>>,
                res |-> NoRes]

\* the codec touches no file and runs no file operation
NoFileOperation ==
    UNCHANGED <<files, temp, stray, pc, op, reader, loc, result, steps,
                faulted, atCall, prot, lastUpd, kills>>

\* secretcrypt::encrypt with the salt and nonce the generator draws
CEncrypt ==
    /\ cx.stage = "start"
    /\ \E ss \in SaltSeeds, ns \in NonceSeeds :
          LET e == encrypt(cx.pass, cx.plain, ss, ns).val
          IN  cx' = [cx EXCEPT !.stage = "sealed", !.orig = e, !.bytes = e]
    /\ NoFileOperation

\* one bit of the envelope is flipped in storage or in transit
CTamper ==
    /\ cx.stage = "sealed"
    /\ cx.flip = "none"
    /\ \E pos \in 1..Len(cx.bytes) : \E bit \in 0..7 :
          cx' = [cx EXCEPT !.bytes = FlipBit(cx.bytes, pos, bit),
                           !.flip = Region(pos)]
    /\ NoFileOperation

\* varmor::wrap
CWrap ==
    /\ cx.stage = "sealed"
    /\ cx.flip = "none"
    /\ cx' = [cx EXCEPT !.stage = "armored", !.text = wrap(cx.bytes)]
    /\ NoFileOperation

\* varmor::unwrap of the armored text
CUnwrap ==
    /\ cx.stage = "armored"
    /\ LET u == unwrap(cx.text)
       IN  cx' = [cx EXCEPT !.stage = IF u.ok THEN "unarmored" ELSE "unarmor failed",
                            !.bytes = IF u.ok THEN u.val ELSE <<>>]
    /\ NoFileOperation

\* secretcrypt::decrypt; a modified envelope is opened with the passphrase it
\* was sealed under
CDecrypt ==
    /\ cx.stage \in {"sealed", "unarmored"}
    /\ \E K \in Passphrases :
          /\ cx.flip # "none" => K = cx.pass
          /\ cx' = [cx EXCEPT !.stage = "opened", !.dpass = K,
                              !.res = decrypt(K, cx.bytes)]
    /\ NoFileOperation

NextCrypt ==
    \/ CEncrypt
    \/ CTamper
    \/ CWrap
    \/ CUnwrap
    \/ CDecrypt

SpecCrypt == InitCrypt /\ [][NextCrypt]_vars

(***************************************************************************)
(* The envelope specification: decrypt is given a valid envelope, a prefix *)
(* of one, one with bytes appended, or a forged input whose length field   *)
(* takes the values at the edges of the structural checks.                 *)
(***************************************************************************)
\* the longest plaintext sealed here: its sealed box is longer than the
\* 40 bytes in front of it, also once its first byte is kept
LongLen == 26

\* the most payload bytes a forged input carries
MaxExtra == 2

Filler(n) == [i \in 1..n |-> (i * 37) % 256]

EnvPlaintexts == { Filler(n) : n \in {0, 1, LongLen} }

\* length fields: 0, 1, 2, 16, 17, 41, 2^24, 2^31 - 1, 2^31, 2^32, i64::MAX,
\* -1, i64::MIN and 1 - 2^56
LengthFields ==
    { i64_to_be_bytes(n) : n \in {0, 1, 2, 16, 17, 41} } \cup
    { <<0, 0, 0, 0, 1, 0, 0, 0>>, <<0, 0, 0, 0, 127, 255, 255, 255>>,
      <<0, 0, 0, 0, 128, 0, 0, 0>>, <<0, 0, 0, 1, 0, 0, 0, 0>>,
      <<127, 255, 255, 255, 255, 255, 255, 255>>,
      <<255, 255, 255, 255, 255, 255, 255, 255>>,
      <<128, 0, 0, 0, 0, 0, 0, 0>>, <<255, 0, 0, 0, 0, 0, 0, 1>> }

\* what is appended to an envelope
Tails == { <<0>>, <<255>>, <<10, 0>> }

InitEnvelope ==
    /\ InitFiles
    /\ \E w \in TargetWidths, K \in FilePassphrases, P \in EnvPlaintexts :
          cx = [stage |-> "start", width |-> w, pass |-> K, plain |-> P,
                orig |-> <<>>, bytes |-> <<>>, base |-> "none", made |-> "none",
                dpass |-> <<>>, res |-> NoRes, kdf |-> FALSE]

\* secretcrypt::encrypt makes a valid envelope
SEncrypt ==
    /\ cx.stage = "start"
    /\ \E ss \in SaltSeeds, ns \in NonceSeeds :
          LET e == encrypt(cx.pass, cx.plain, ss, ns).val
          IN  cx' = [cx EXCEPT !.stage = "input", !.orig = e, !.bytes = e,
                               !.base = "envelope", !.made = "envelope"]
    /\ NoFileOperation

\* an input that no encrypt made: a salt, a nonce, a length field and some
\* payload bytes
SForge ==
    /\ cx.stage = "start"
    /\ \E ss \in SaltSeeds, lf \in LengthFields, k \in 0..MaxExtra :
          LET e == RandomBytes(ss, SALT_LEN) \o RandomBytes(ss + 2, NONCE_LEN)
                       \o lf \o Filler(k)
          IN  cx' = [cx EXCEPT !.stage = "input", !.orig = e, !.bytes = e,
                               !.base = "forged", !.made = "forged"]
    /\ NoFileOperation

\* the input is cut short: a proper prefix of it remains
STruncate ==
    /\ cx.stage = "input"
    /\ cx.made \in {"envelope", "forged"}
    /\ \E n \in 0..(Len(cx.bytes) - 1) :
          cx' = [cx EXCEPT !.bytes = Take(cx.bytes, n), !.made = "cut"]
    /\ NoFileOperation

\* bytes are appended to a valid envelope
SAppend ==
    /\ cx.stage = "input"
    /\ cx.made = "envelope"
    /\ \E T \in Tails :
          cx' = [cx EXCEPT !.bytes = cx.bytes \o T, !.made = "extended"]
    /\ NoFileOperation

\* secretcrypt::decrypt of the input, with any passphrase
SDecrypt ==
    /\ cx.stage = "input"
    /\ \E K \in FilePassphrases :
          LET d == decrypt_traced(cx.width, K, cx.bytes)
          IN  cx' = [cx EXCEPT !.stage = "decoded", !.dpass = K,
                               !.res = d.res, !.kdf = d.kdf]
    /\ NoFileOperation

NextEnvelope ==
    \/ SEncrypt
    \/ SForge
    \/ STruncate
    \/ SAppend
    \/ SDecrypt

SpecEnvelope == InitEnvelope /\ [][NextEnvelope]_vars

(***************************************************************************)
(* The armor specification: a byte sequence is wrapped and unwrapped, or a *)
(* text that wrap did not make is unwrapped.                               *)
(***************************************************************************)
\* the longest body wrapped, past one whole group of three bytes
MaxBody == 4

\* bytes whose sextets reach the last two symbols of the alphabet
ArmorBytes == {0, 97, 251, 255}

\* every single byte, and the sequences over ArmorBytes
Bodies == { <<b>> : b \in Byte } \cup SeqsUpTo(ArmorBytes, MaxBody)

\* the longest text put after the magic prefix
MaxSuffix == 3

\* the characters 1 2 : A - = and the space
SuffixChars == {49, 50, 58, 65, 45, 61, 32}

\* texts wrap did not make: the magic prefix cut short, the magic prefix
\* followed by some characters, and texts that are no saltybox data
ForeignTexts ==
    { Take(MAGIC_PREFIX, n) : n \in 0..Len(MAGIC_PREFIX) } \cup
    { MAGIC_PREFIX \o t : t \in SeqsUpTo(SuffixChars, MaxSuffix) } \cup
    { <<83>> \o Drop(V1_MAGIC, 1) \o t : t \in SeqsUpTo(SuffixChars, 1) }

InitArmor ==
    /\ InitFiles
    /\ \/ \E B \in Bodies :
             cx = [stage |-> "start", body |-> B, text |-> <<>>, res |-> NoRes]
       \/ \E t \in ForeignTexts :
             cx = [stage |-> "foreign", body |-> <<>>, text |-> t, res |-> NoRes]

\* varmor::wrap
AWrap ==
    /\ cx.stage = "start"
    /\ cx' = [cx EXCEPT !.stage = "wrapped", !.text = wrap(cx.body)]
    /\ NoFileOperation

\* varmor::unwrap of what wrap returned
AUnwrap ==
    /\ cx.stage = "wrapped"
    /\ cx' = [cx EXCEPT !.stage = "unwrapped", !.res = unwrap(cx.text)]
    /\ NoFileOperation

\* varmor::unwrap of a text wrap did not make
AUnwrapForeign ==
    /\ cx.stage = "foreign"
    /\ cx' = [cx EXCEPT !.stage = "rejected", !.res = unwrap(cx.text)]
    /\ NoFileOperation

NextArmor ==
    \/ AWrap
    \/ AUnwrap
    \/ AUnwrapForeign

SpecArmor == InitArmor /\ [][NextArmor]_vars

(***************************************************************************)
(* The reader specification: one CachingPassphraseReader is read again and *)
(* again; its upstream reader fails or returns a passphrase, and need not  *)
(* return the same one twice.                                              *)
(***************************************************************************)
\* the most read_passphrase calls made on one reader
MaxReads == 8

\* Option<Zeroizing<Vec<u8>>>
None == [some |-> FALSE, val |-> <<>>]

Some(v) == [some |-> TRUE, val |-> v]

\* what the upstream reader may return when it is invoked
UpstreamResults ==
    { Ok(K) : K \in Passphrases } \cup
    { Err(with_kind("User", "PassphraseUnavailable",
                    "cannot read passphrase from terminal - stdin is not a terminal")),
      Err(with_kind("Internal", "PassphraseUnavailable", "simulated error")) }

\* CachingPassphraseReader::new
CachingPassphraseReader_new == [cached |-> None]

\* a reader that asks upstream on every call and caches nothing
caching_read_passphrase_Uncached(self, up) ==
    [self |-> self, ret |-> up, called |-> TRUE]

\* a reader that remembers a failure of upstream as an empty passphrase
caching_read_passphrase_ErrorCached(self, up) ==
    IF ~self.cached.some
    THEN IF up.ok
         THEN [self |-> [self EXCEPT !.cached = Some(up.val)],
               ret |-> Ok(up.val), called |-> TRUE]
         ELSE [self |-> [self EXCEPT !.cached = Some(<<>>)],
               ret |-> up, called |-> TRUE]
    ELSE [self |-> self, ret |-> Ok(self.cached.val), called |-> FALSE]

\* CachingPassphraseReader::read_passphrase, where `up` is what upstream
\* returns if it is invoked: the reader after the call, the value returned,
\* and whether upstream was invoked
caching_read_passphrase(self, up) ==
    IF ~self.cached.some
    THEN IF up.ok
         THEN [self |-> [self EXCEPT !.cached = Some(up.val)],
               ret |-> Ok(up.val), called |-> TRUE]
         ELSE [self |-> self, ret |-> up, called |-> TRUE]
    ELSE [self |-> self, ret |-> Ok(self.cached.val), called |-> FALSE]

InitReader ==
    /\ InitFiles
    /\ cx = [stage |-> "reader", caching |-> CachingPassphraseReader_new,
             reads |-> 0, upstream |-> 0, first |-> None, after |-> 0,
             last |-> NoRes, prev |-> NoRes, up |-> NoRes, called |-> FALSE]

\* one call of read_passphrase; `first` keeps the first value returned with
\* success, `upstream` counts the invocations of upstream and `after` those
\* made once a call had succeeded; `last` and `prev` are what this call and
\* the call before it returned, `called` whether this call invoked upstream
\* and `up` what upstream returned or would have returned to it
RRead ==
    /\ cx.stage = "reader"
    /\ cx.reads < MaxReads
    /\ \E up \in UpstreamResults :
          LET r == caching_read_passphrase(cx.caching, up)
          IN  cx' = [cx EXCEPT
                       !.caching = r.self,
                       !.reads = @ + 1,
                       !.upstream = IF r.called THEN @ + 1 ELSE @,
                       !.after = IF r.called /\ cx.first.some THEN @ + 1 ELSE @,
                       !.first = IF ~cx.first.some /\ r.ret.ok THEN Some(r.ret.val) ELSE @,
                       !.last = r.ret,
                       !.prev = cx.last,
                       !.up = up,
                       !.called = r.called]
    /\ NoFileOperation

NextReader == RRead

SpecReader == InitReader /\ [][NextReader]_vars

(***************************************************************************)
(* The error specification: a SaltyboxError is made by one of the          *)
(* constructors and wrapped by with_context again and again.               *)
(***************************************************************************)
\* the most with_context calls chained on one error
MaxContexts == 3

ErrorCategories == {"Internal", "User"}

ErrorKinds == {"ArmoringDecode", "AuthenticationFailed", "Io"}

ContextMessages == {"failed to decrypt", "failed to write to crypt", ""}

\* the errors the constructors make: new (no kind), with_kind and
\* with_kind_and_source
BaseErrors ==
    { SaltyboxError_new(c, "base") : c \in ErrorCategories } \cup
    { with_kind(c, k, "base") : c \in ErrorCategories, k \in ErrorKinds } \cup
    { with_kind_and_source(c, k, "base", "io::Error") :
          c \in ErrorCategories, k \in ErrorKinds }

InitError ==
    /\ InitFiles
    /\ \E e \in BaseErrors :
          cx = [stage |-> "error", orig |-> e, inner |-> e, cur |-> e,
                msg |-> "", depth |-> 0]

\* e.with_context(m): `inner` keeps the error that was wrapped
XContext ==
    /\ cx.stage = "error"
    /\ cx.depth < MaxContexts
    /\ \E m \in ContextMessages :
          cx' = [cx EXCEPT !.inner = cx.cur, !.cur = with_context(cx.cur, m),
                           !.msg = m, !.depth = @ + 1]
    /\ NoFileOperation

NextError == XContext

SpecError == InitError /\ [][NextError]_vars

(***************************************************************************)
(* Properties of the file operations, checked under Spec.                  *)
(***************************************************************************)
Range(s) == { s[i] : i \in 1..Len(s) }

\* the steps of phase 1 and of phase 2 of update_file, failed ones included
Phase1Failures == {"read_crypt!", "utf8!", "passphrase!", "unarmor!", "decrypt!"}

Phase2Steps ==
    {"tempfile", "read_plain", "encrypt", "write", "flush", "sync", "chmod", "persist",
     "tempfile!", "read_plain!", "encrypt!", "write!", "flush!", "sync!", "chmod!", "persist!"}

Phase2Labels ==
    {"u_tempfile", "u_read_plain", "u_encrypt", "u_write", "u_flush", "u_sync",
     "u_chmod", "u_persist"}

\* the call of process p is an update_file that has returned
UpdateReturned(p) == op[p] = "update_file" /\ pc[p] = "done"

\* the call of process p was made with a passphrase other than the one the
\* encrypted file was created under
WrongPassphraseCall(p) ==
    /\ atCall[p].prot.set
    /\ reader[p] # atCall[p].prot.pass
    /\ ~faulted[p]

\* unarmoring the text of an encrypted file and opening it with K
OpenText(K, text) ==
    LET u == unwrap(text)
    IN  IF ~u.ok THEN Err(u.err.msg) ELSE decrypt(K, u.val)

\* the texts the file operations can leave in the encrypted file, and what
\* OpenText returns for each of them: evaluated once
WrittenTexts ==
    { wrap(encrypt(K, P, seed[1], seed[2]).val) :
          K \in FilePassphrases, P \in FilePlaintexts, seed \in FileSeeds }
        \cup CorruptFiles

OpenTable == [text \in WrittenTexts, K \in Passphrases |-> OpenText(K, text)]

Opened(K, text) ==
    IF text \in WrittenTexts THEN OpenTable[text, K] ELSE OpenText(K, text)

\* C1: update_file called on a valid encrypted file with a passphrase other
\* than the file's fails with the kind AuthenticationFailed and leaves the
\* encrypted file exactly as it was: existence, bytes and mode.
C1_WrongPassphraseUpdateRejected ==
    \A p \in Procs :
        (UpdateReturned(p) /\ WrongPassphraseCall(p)) =>
            /\ result[p].status = "err"
            /\ result[p].err.kind = "AuthenticationFailed"
            /\ result[p].err.msg = "failed to decrypt"
            /\ result[p].err.chain = <<AuthFailedMsg>>
            /\ files["crypt"] = atCall[p].dest
            /\ ~temp[p].exists

C1_Witness ==
    /\ UpdateReturned(1) /\ WrongPassphraseCall(1)
    /\ files["crypt"].exists
    /\ files["plain"].content # atCall[1].prot.plain

\* phase 1 of the running update succeeded: the text read from the encrypted
\* file unarmors and opens under the passphrase the reader returned
Phase1Succeeded(p) ==
    /\ "read_crypt" \in Range(steps[p])
    /\ "passphrase" \in Range(steps[p])
    /\ "validate" \in Range(steps[p])
    /\ Opened(loc[p].passphrase, loc[p].armored).ok

InPhase2(p) ==
    \/ pc[p] \in Phase2Labels
    \/ Range(steps[p]) \cap Phase2Steps # {}
    \/ temp[p].exists

\* C2: update_file is in phase 2 (temporary file, encryption, write, rename)
\* only after phase 1 succeeded; a call that failed in phase 1 has done no
\* step of phase 2 and has not touched the encrypted file.
C2_Phase2OnlyAfterPhase1 ==
    \A p \in Procs :
        op[p] = "update_file" =>
            /\ InPhase2(p) => Phase1Succeeded(p)
            /\ Range(steps[p]) \cap Phase1Failures # {} =>
                  /\ ~InPhase2(p)
                  /\ files["crypt"] = atCall[p].dest

C2_Witness ==
    /\ UpdateReturned(1)
    /\ result[1].status = "ok"
    /\ "persist" \in Range(steps[1])
    /\ files["crypt"] # atCall[1].dest

\* C3: whatever error update_file returns, from whichever step, the
\* encrypted file is exactly as it was at the call.
C3_FailedUpdateLeavesOriginal ==
    \A p \in Procs :
        (UpdateReturned(p) /\ result[p].status = "err") =>
            files["crypt"] = atCall[p].dest

C3_Witness ==
    /\ UpdateReturned(1)
    /\ result[1].status = "err"
    /\ "persist!" \in Range(steps[1])
    /\ atCall[1].dest.exists
    /\ files["crypt"] = atCall[1].dest

\* C4: at every moment of an operation, a kill included, the destination
\* holds either what it held at the call or the complete new contents; a
\* killed process leaves at most its temporary file behind.
C4_DestinationNeverPartial ==
    /\ \A p \in Procs :
          op[p] # "none" =>
              \/ files[Dest(op[p])] = atCall[p].dest
              \/ /\ loc[p].haveContents
                 /\ files[Dest(op[p])].exists
                 /\ files[Dest(op[p])].content = loc[p].contents
    /\ stray <= kills

C4_Witness ==
    /\ pc[1] = "killed"
    /\ stray = 1
    /\ "encrypt" \in Range(steps[1])
    /\ "write" \notin Range(steps[1])
    /\ atCall[1].dest.exists
    /\ files[Dest(op[1])] = atCall[1].dest

\* what opening the encrypted file with passphrase K returns
OpenCrypt(K) ==
    IF ~files["crypt"].exists THEN Err("no file")
    ELSE Opened(K, files["crypt"].content)

\* the encrypted file opens with K to P and with no other passphrase
OpensOnlyWith(K, P) ==
    \A K2 \in Passphrases :
        OpenCrypt(K2) = IF K2 = K THEN Ok(P) ELSE Err(AuthFailedMsg)

\* the call of process p was made with the passphrase the encrypted file was
\* created under, and no I/O fault hit it
RightPassphraseCall(p) ==
    /\ atCall[p].prot.set
    /\ reader[p] = atCall[p].prot.pass
    /\ ~faulted[p]

\* C5: from encrypt_file under K onwards, after any sequence of update_file
\* calls with any passphrases and plaintexts (each returned or killed), the
\* encrypted file opens with K and with no other passphrase, and opens to
\* the plaintext of the latest update made with K, or to the original
\* plaintext if there was none; an update made with K and hit by no fault
\* succeeds.
C5_UpdateKeepsPassphrase ==
    /\ (prot.set /\ \A p \in Procs : Idle(p)) => OpensOnlyWith(prot.pass, prot.plain)
    /\ \A p \in Procs :
          (UpdateReturned(p) /\ RightPassphraseCall(p)) =>
              /\ result[p].status = "ok"
              /\ prot = [set |-> TRUE, pass |-> reader[p], plain |-> loc[p].plaintext]

C5_Witness ==
    /\ UpdateReturned(1) /\ RightPassphraseCall(1)
    /\ result[1].status = "ok"
    /\ prot.plain # atCall[1].prot.plain
    /\ OpenCrypt(prot.pass) = Ok(loc[1].plaintext)

\* the call of process p is a decrypt_file that has returned
DecryptReturned(p) == op[p] = "decrypt_file" /\ pc[p] = "done"

\* C6: once update_file has succeeded with passphrase K and plaintext P2,
\* decrypt_file with K succeeds and the output file holds exactly P2.
C6_DecryptAfterUpdate ==
    \A p \in Procs :
        (DecryptReturned(p) /\ lastUpd.set /\ reader[p] = lastUpd.pass /\ ~faulted[p]) =>
            /\ result[p].status = "ok"
            /\ files["out"].exists
            /\ files["out"].content = lastUpd.plain

C6_Witness ==
    /\ DecryptReturned(1)
    /\ lastUpd.set /\ reader[1] = lastUpd.pass /\ ~faulted[1]
    /\ lastUpd.prev # lastUpd.plain
    /\ files["out"].content = lastUpd.plain

(***************************************************************************)
(* Properties of the codec, checked under SpecCrypt.                       *)
(***************************************************************************)
DecryptDone == cx.stage = "opened"

\* the one error of a failed authenticated open, as file_ops receives it
AuthenticationFailed == with_kind("User", "AuthenticationFailed", AuthFailedMsg)

FailsClosed(res) ==
    /\ res = Err(AuthFailedMsg)
    /\ SecretcryptError(res.err) = AuthenticationFailed

\* C7: decrypt(K, encrypt(K, P)) is Ok(P) for every plaintext P, the empty one
\* included, every passphrase K and every salt and nonce drawn; wrap followed
\* by unwrap gives the envelope back, so the same holds through the armor.
C7_RoundTrip ==
    /\ cx.stage # "unarmor failed"
    /\ cx.stage = "unarmored" => cx.bytes = cx.orig
    /\ (DecryptDone /\ cx.flip = "none" /\ cx.dpass = cx.pass) => cx.res = Ok(cx.plain)

C7_Witness ==
    /\ DecryptDone /\ cx.flip = "none" /\ cx.dpass = cx.pass
    /\ cx.plain = <<>>
    /\ cx.text # <<>>
    /\ cx.res = Ok(<<>>)

\* C8: decrypt(K2, encrypt(K1, P)) with K2 # K1 returns the error "corrupt
\* input, tampered-with data, or bad passphrase", of kind
\* AuthenticationFailed, and no plaintext.
C8_WrongPassphraseFails ==
    (DecryptDone /\ cx.flip = "none" /\ cx.dpass # cx.pass) =>
        /\ ~cx.res.ok
        /\ DOMAIN cx.res = {"ok", "err"}
        /\ FailsClosed(cx.res)

C8_Witness ==
    /\ DecryptDone /\ cx.flip = "none" /\ cx.dpass # cx.pass
    /\ cx.plain # <<>>
    /\ cx.text = <<>>
    /\ ~cx.res.ok

\* C9: one flipped bit in the sealed box, in the tag or in the ciphertext,
\* makes decrypt with the right passphrase fail with AuthenticationFailed;
\* whenever decrypt returns a plaintext it is the one that was encrypted.
C9_TamperedSealedBoxFails ==
    /\ (DecryptDone /\ cx.flip \in {"tag", "ciphertext"} /\ cx.dpass = cx.pass) =>
          FailsClosed(cx.res)
    /\ (DecryptDone /\ cx.res.ok) => cx.res.val = cx.plain

C9_Witness ==
    /\ DecryptDone /\ cx.flip = "ciphertext" /\ cx.dpass = cx.pass
    /\ Len(cx.plain) = MaxLen
    /\ ~cx.res.ok

\* the open of a structurally valid envelope that must fail: another
\* passphrase, or one flipped bit in salt, nonce, tag or ciphertext
MustFailOpen ==
    /\ DecryptDone
    /\ \/ cx.flip = "none" /\ cx.dpass # cx.pass
       \/ cx.flip \in {"salt", "nonce", "tag", "ciphertext"}

\* C10: whatever makes the open of a structurally valid envelope fail (wrong
\* passphrase, modified ciphertext, tag, salt or nonce), decrypt returns one
\* and the same value: the error with the generic message and the kind
\* AuthenticationFailed, with no other field and no plaintext.
C10_OneGenericError ==
    MustFailOpen =>
        /\ cx.res = Err("corrupt input, tampered-with data, or bad passphrase")
        /\ SecretcryptError(cx.res.err) = AuthenticationFailed

C10_Witness ==
    /\ MustFailOpen
    /\ cx.flip = "salt"
    /\ cx.res = Err(AuthFailedMsg)

(***************************************************************************)
(* Temporary files, checked under Spec.                                    *)
(***************************************************************************)
\* the call of process p has returned an error from a step before the rename
FailedBeforeRename(p) ==
    /\ pc[p] = "done"
    /\ result[p].status = "err"
    /\ steps[p][Len(steps[p])] # "persist!"

\* C11: when encrypt_file, decrypt_file or update_file has returned an error
\* from a step before the rename, the temporary file that call created is
\* gone from the destination directory; only a killed process leaves one.
C11_NoTempAfterFailure ==
    /\ \A p \in Procs : FailedBeforeRename(p) => ~temp[p].exists
    /\ stray <= kills

C11_Witness ==
    /\ FailedBeforeRename(1)
    /\ op[1] = "update_file"
    /\ "tempfile" \in Range(steps[1])
    /\ steps[1][Len(steps[1])] = "flush!"
    /\ ~temp[1].exists
    /\ kills = 0

(***************************************************************************)
(* The structural checks of decrypt, checked under SpecEnvelope.           *)
(***************************************************************************)
Decoded == cx.stage = "decoded"

\* the kind of the error decrypt returned
ErrKind == SecretcryptError(cx.res.err).kind

MsgTruncatedSalt   == "input likely truncated while reading salt"
MsgTruncatedNonce  == "input likely truncated while reading nonce"
MsgTruncatedLength == "input likely truncated while reading sealed box"
MsgNegativeLength  == "negative sealed box length (when interpreted as a big-endian i64)"
MsgExceedsIsize    == "sealed box length exceeds this system's max isize"
MsgClaimedTooLong  == "truncated or corrupt input; claimed length greater than available input"
MsgTruncatedBox    == "truncated or corrupt input (while reading sealed box)"
MsgTrailingData    == "invalid input: unexpected data after sealed box"

\* decrypt was given a proper prefix of a valid envelope
EnvelopePrefix == Decoded /\ cx.base = "envelope" /\ cx.made = "cut"

\* the length the envelope the input was made from declares
DeclaredLen == Len(cx.orig) - HEADER_LEN

\* C12 as stated: decrypt of every proper prefix of a valid envelope fails
\* with TruncatedInput.
C12_PrefixIsTruncatedInput ==
    EnvelopePrefix => (~cx.res.ok /\ ErrKind = "TruncatedInput")

\* C12, amended: decrypt of every proper prefix of a valid envelope fails;
\* with TruncatedInput when the cut falls within the salt, the nonce or the
\* length field, or within the sealed box at a point where the prefix is at
\* least as long as the declared length; with BinaryFormat (claimed length
\* greater than available input) when the prefix is shorter than the
\* declared length.
C12_PrefixFails ==
    EnvelopePrefix =>
        /\ ~cx.res.ok
        /\ cx.res.err =
              IF Len(cx.bytes) < SALT_LEN THEN MsgTruncatedSalt
              ELSE IF Len(cx.bytes) < SALT_LEN + NONCE_LEN THEN MsgTruncatedNonce
              ELSE IF Len(cx.bytes) < HEADER_LEN THEN MsgTruncatedLength
              ELSE IF DeclaredLen > Len(cx.bytes) THEN MsgClaimedTooLong
              ELSE MsgTruncatedBox
        /\ ErrKind = IF Len(cx.bytes) >= HEADER_LEN /\ DeclaredLen > Len(cx.bytes)
                     THEN "BinaryFormat" ELSE "TruncatedInput"

C12_Witness ==
    /\ EnvelopePrefix
    /\ Len(cx.bytes) > HEADER_LEN
    /\ DeclaredLen > Len(cx.bytes)
    /\ cx.res = Err(MsgClaimedTooLong)

\* the length field of an input that has one
LengthField == i64_from_be_bytes(SubSeq(cx.bytes, SALT_LEN + NONCE_LEN + 1, HEADER_LEN))

\* decrypt was given an input with a whole header whose length field is not
\* negative and is greater than the number of bytes after the header
DeclaresMoreThanRemains ==
    /\ Decoded
    /\ Len(cx.bytes) >= HEADER_LEN
    /\ ~LengthField.neg
    /\ I64Greater(LengthField, Len(cx.bytes) - HEADER_LEN)

\* C13 as stated: an input of at least 40 bytes whose length field is not
\* negative and greater than the number of bytes after the length field
\* fails with BinaryFormat.
C13_MoreThanRemainsIsBinaryFormat ==
    DeclaresMoreThanRemains => (~cx.res.ok /\ ErrKind = "BinaryFormat")

\* C13, amended: such an input fails with BinaryFormat (claimed length
\* greater than available input, or length above the platform maximum) when
\* the declared length is greater than the length of the whole input, and
\* with TruncatedInput (while reading sealed box) when it is greater than
\* the number of bytes after the length field but not than the whole input.
C13_ClaimedTooLong ==
    DeclaresMoreThanRemains =>
        IF I64ExceedsIsize(cx.width, LengthField)
        THEN cx.res = Err(MsgExceedsIsize) /\ ErrKind = "BinaryFormat"
        ELSE IF I64Greater(LengthField, Len(cx.bytes))
        THEN cx.res = Err(MsgClaimedTooLong) /\ ErrKind = "BinaryFormat"
        ELSE cx.res = Err(MsgTruncatedBox) /\ ErrKind = "TruncatedInput"

C13_Witness ==
    /\ DeclaresMoreThanRemains
    /\ cx.made = "forged"
    /\ Len(cx.bytes) = HEADER_LEN + 1
    /\ LengthField.low = 41 /\ ~LengthField.big
    /\ cx.res = Err(MsgTruncatedBox)

\* decrypt was given an input with a whole header and a negative length field
NegativeLengthInput ==
    /\ Decoded
    /\ Len(cx.bytes) >= HEADER_LEN
    /\ cx.bytes[SALT_LEN + NONCE_LEN + 1] >= 128

\* C14: an input of at least 40 bytes whose big-endian signed length field
\* is negative fails with BinaryFormat (negative length), whatever follows
\* the length field and whatever the passphrase.
C14_NegativeLength ==
    NegativeLengthInput =>
        (cx.res = Err(MsgNegativeLength) /\ ErrKind = "BinaryFormat")

C14_Witness ==
    /\ NegativeLengthInput
    /\ cx.width = 64
    /\ Len(cx.bytes) = HEADER_LEN + 1
    /\ SubSeq(cx.bytes, SALT_LEN + NONCE_LEN + 1, HEADER_LEN) = <<255, 0, 0, 0, 0, 0, 0, 1>>
    /\ cx.res = Err(MsgNegativeLength)

\* decrypt was given a valid envelope with bytes appended
ExtendedEnvelope == Decoded /\ cx.made = "extended"

\* C15: a valid envelope followed by one or more bytes fails with
\* TrailingData, and decrypt succeeds only on an input that ends exactly
\* after the declared number of payload bytes.
C15_TrailingData ==
    /\ ExtendedEnvelope =>
          (cx.res = Err(MsgTrailingData) /\ ErrKind = "TrailingData")
    /\ (Decoded /\ cx.res.ok) =>
          /\ Len(cx.bytes) >= HEADER_LEN
          /\ ~LengthField.neg /\ ~LengthField.big
          /\ Len(cx.bytes) = HEADER_LEN + LengthField.low

C15_Witness ==
    /\ ExtendedEnvelope
    /\ Len(cx.bytes) = Len(cx.orig) + 1
    /\ cx.dpass = cx.pass
    /\ cx.res = Err(MsgTrailingData)

\* the eight structural checks in the order decrypt is to make them: does
\* the input violate check k
Violates(k) ==
    CASE k = 1 -> Len(cx.bytes) < SALT_LEN
      [] k = 2 -> Len(cx.bytes) < SALT_LEN + NONCE_LEN
      [] k = 3 -> Len(cx.bytes) < HEADER_LEN
      [] k = 4 -> Len(cx.bytes) >= HEADER_LEN /\ LengthField.neg
      [] k = 5 -> /\ Len(cx.bytes) >= HEADER_LEN /\ ~LengthField.neg
                  /\ cx.width = 32 /\ LengthField.wide
      [] k = 6 -> /\ Len(cx.bytes) >= HEADER_LEN /\ ~LengthField.neg
                  /\ (LengthField.big \/ LengthField.low > Len(cx.bytes))
      [] k = 7 -> /\ Len(cx.bytes) >= HEADER_LEN /\ ~LengthField.neg
                  /\ (LengthField.big \/ HEADER_LEN + LengthField.low > Len(cx.bytes))
      [] k = 8 -> /\ Len(cx.bytes) >= HEADER_LEN /\ ~LengthField.neg
                  /\ ~LengthField.big /\ HEADER_LEN + LengthField.low < Len(cx.bytes)

FailedChecks == { k \in 1..8 : Violates(k) }

FirstFailedCheck == CHOOSE k \in FailedChecks : \A j \in FailedChecks : k <= j

CheckMsg ==
    <<MsgTruncatedSalt, MsgTruncatedNonce, MsgTruncatedLength, MsgNegativeLength,
      MsgExceedsIsize, MsgClaimedTooLong, MsgTruncatedBox, MsgTrailingData>>

CheckKind ==
    <<"TruncatedInput", "TruncatedInput", "TruncatedInput", "BinaryFormat",
      "BinaryFormat", "BinaryFormat", "TruncatedInput", "TrailingData">>

\* C16: the structural error decrypt reports is that of the first failing
\* check in the order salt, nonce, length, negative length, length above the
\* platform maximum, length larger than the input, payload incomplete,
\* bytes left over; an input that fails no check gets no structural error.
C16_FirstFailingCheck ==
    Decoded =>
        IF FailedChecks = {}
        THEN cx.res.ok \/ cx.res.err = AuthFailedMsg
        ELSE /\ cx.res = Err(CheckMsg[FirstFailedCheck])
             /\ ErrKind = CheckKind[FirstFailedCheck]

C16_Witness ==
    /\ Decoded
    /\ FailedChecks = {5, 6, 7}
    /\ cx.res = Err(MsgExceedsIsize)

(***************************************************************************)
(* Properties of the armor, checked under SpecArmor.                       *)
(***************************************************************************)
\* C17: unwrap(wrap(B)) succeeds and returns exactly B, for every byte
\* sequence B, the empty one included.
C17_ArmorRoundTrip ==
    cx.stage = "unwrapped" => cx.res = Ok(cx.body)

C17_Witness ==
    /\ cx.stage = "unwrapped"
    /\ cx.body = <<251, 255, 0, 97>>
    /\ cx.res = Ok(cx.body)

\* space, tab, line feed, vertical tab, form feed, carriage return, and the
\* characters + / =
ForbiddenChars == {32, 9, 10, 11, 12, 13, 43, 47, 61}

\* C18: wrap(B) starts with "saltybox1:" and holds no whitespace character
\* and none of + / =.
C18_ArmorIsUrlSafe ==
    cx.stage \in {"wrapped", "unwrapped"} =>
        /\ StartsWith(cx.text, V1_MAGIC)
        /\ \A i \in 1..Len(cx.text) : cx.text[i] \notin ForbiddenChars

C18_Witness ==
    /\ cx.stage = "wrapped"
    /\ cx.body = <<251, 255>>
    /\ 45 \in Range(cx.text) /\ 95 \in Range(cx.text)

\* unwrap was given a text that starts with the magic prefix and not with
\* the marker of version 1
OtherVersion ==
    /\ cx.stage = "rejected"
    /\ StartsWith(cx.text, MAGIC_PREFIX)
    /\ ~StartsWith(cx.text, V1_MAGIC)

\* C19 as stated: unwrap of every input that starts with the magic prefix
\* and carries a version tag other than that of version 1 (here: the prefix
\* is followed by one of the digits 2 to 9) fails with ArmoringFromFuture.
C19_OtherVersionIsFromFuture ==
    (OtherVersion /\ Len(cx.text) > Len(MAGIC_PREFIX)
                  /\ cx.text[Len(MAGIC_PREFIX) + 1] \in 50..57) =>
        (~cx.res.ok /\ cx.res.err.kind = "ArmoringFromFuture")

\* C19, amended: unwrap of every input that starts with the magic prefix and
\* not with the marker of version 1 fails with ArmoringFromFuture when the
\* input is at least as long as that marker, and with ArmoringInvalid
\* (likely truncated) when it is shorter.
C19_FromFuture ==
    OtherVersion =>
        /\ ~cx.res.ok
        /\ cx.res.err.kind = IF Len(cx.text) >= Len(V1_MAGIC)
                             THEN "ArmoringFromFuture" ELSE "ArmoringInvalid"

C19_Witness ==
    /\ OtherVersion
    /\ cx.text = MAGIC_PREFIX \o <<50, 58, 65>>
    /\ cx.res.err.kind = "ArmoringFromFuture"

(***************************************************************************)
(* The caching reader, checked under SpecReader.                           *)
(***************************************************************************)
\* C20: once a read_passphrase call of a CachingPassphraseReader has
\* succeeded, upstream is never invoked again and every later call returns
\* the bytes of that first success: upstream is invoked once for the first
\* success and once for each failure before it.
C20_UpstreamAtMostOnce ==
    cx.first.some =>
        /\ cx.after = 0
        /\ cx.last = Ok(cx.first.val)
        /\ cx.caching.cached = cx.first

C20_Witness ==
    /\ cx.first.some
    /\ cx.reads = 4
    /\ cx.upstream = 2
    /\ cx.last = Ok(<<116, 255>>)

\* the read_passphrase call just made returned an error
ReadFailed == cx.stage = "reader" /\ cx.reads > 0 /\ ~cx.last.ok

\* the read_passphrase call just made follows one that returned an error
ReadAfterFailure == cx.stage = "reader" /\ cx.reads > 1 /\ ~cx.prev.ok

C21_ContextKeepsKind ==
    cx.depth > 0 =>
        /\ cx.cur.category = cx.inner.category
        /\ cx.cur.kind = cx.inner.kind
        /\ cx.cur.msg = cx.msg
        /\ cx.cur.chain = <<cx.inner.msg>> \o cx.inner.chain
        /\ cx.cur.category = cx.orig.category
        /\ cx.cur.kind = cx.orig.kind
        /\ Len(cx.cur.chain) = cx.depth + Len(cx.orig.chain)

C21_Witness ==
    /\ cx.depth = 3
    /\ cx.orig = with_kind_and_source("User", "Io", "base", "io::Error")
    /\ cx.cur.kind = "Io" /\ cx.cur.category = "User"
    /\ cx.cur.msg = "failed to decrypt"
    /\ Len(cx.cur.chain) = 4

(***************************************************************************)
(* Permissions of the outputs, checked under SpecPerm.                     *)
(***************************************************************************)
\* the call of process p has returned Ok
ReturnedOk(p) == pc[p] = "done" /\ result[p].status = "ok"

\* C22: after a successful encrypt_file, decrypt_file or update_file the
\* destination file has the permission bits 0600 exactly, also when a file
\* with wider permissions was at the destination at the call.
C22_DestinationMode0600 ==
    \A p \in Procs :
        ReturnedOk(p) =>
            /\ files[Dest(op[p])].exists
            /\ files[Dest(op[p])].mode = MODE_0600

C22_Witness ==
    /\ ReturnedOk(1)
    /\ op[1] = "decrypt_file"
    /\ atCall[1].dest.exists
    /\ atCall[1].dest.mode = MODE_0644
    /\ files["out"].mode = MODE_0600

(***************************************************************************)
(* Failed encrypt_file and decrypt_file, checked under Spec.               *)
(***************************************************************************)
\* the call of process p is an encrypt_file or a decrypt_file that has
\* returned an error
ConvertFailed(p) ==
    /\ op[p] \in {"encrypt_file", "decrypt_file"}
    /\ pc[p] = "done"
    /\ result[p].status = "err"

\* C23: when encrypt_file or decrypt_file returns an error, the output path
\* is as it was at the call: absent if it was absent, with its content and
\* permissions if it was there.
C23_FailedConvertLeavesOutput ==
    \A p \in Procs :
        ConvertFailed(p) => files[Dest(op[p])] = atCall[p].dest

C23_Witness ==
    /\ ConvertFailed(1)
    /\ op[1] = "decrypt_file"
    /\ "decrypt!" \in Range(steps[1])
    /\ result[1].err.chain = <<AuthFailedMsg>>
    /\ ~atCall[1].dest.exists
    /\ ~files["out"].exists

(***************************************************************************)
(* The read of the sealed box in decrypt, checked under SpecEnvelope.      *)
(***************************************************************************)
\* decrypt was given an input that passes every check in front of the read
\* of the sealed box: the header is whole, the length field is not
\* negative, fits the target and is not greater than the whole input
PassesHeaderChecks ==
    /\ Decoded
    /\ Len(cx.bytes) >= HEADER_LEN
    /\ ~NegativeLength(LengthField)
    /\ ~I64ExceedsIsize(cx.width, LengthField)
    /\ ~I64Greater(LengthField, Len(cx.bytes))

\* C24 as stated: no input reaches the error of the read of the sealed box,
\* "truncated or corrupt input (while reading sealed box)".
C24_ReadErrorUnreachable ==
    Decoded => cx.res # Err(MsgTruncatedBox)

\* C24, amended: decrypt returns the error of the read of the sealed box
\* exactly for the inputs that pass the checks in front of it and whose
\* declared length is greater than the number of bytes after the length
\* field; the declared length of such an input is at most 40 bytes above
\* the bytes that remain.
C24_ReadErrorReached ==
    Decoded =>
        /\ cx.res = Err(MsgTruncatedBox)
             <=> /\ PassesHeaderChecks
                 /\ LengthField.low > Len(cx.bytes) - HEADER_LEN
        /\ cx.res = Err(MsgTruncatedBox)
             => /\ LengthField.low <= Len(cx.bytes)
                /\ LengthField.low - (Len(cx.bytes) - HEADER_LEN) <= HEADER_LEN

C24_Witness ==
    /\ PassesHeaderChecks
    /\ cx.made = "cut"
    /\ Len(cx.bytes) > HEADER_LEN
    /\ LengthField.low = Len(cx.bytes)
    /\ cx.res = Err(MsgTruncatedBox)

(***************************************************************************)
(* The order of the steps in front of the rename, checked under SpecPerm.  *)
(***************************************************************************)
\* the steps between the creation of the temporary file and the rename
WritePhase == <<"write", "flush", "sync", "chmod">>

\* this step of process p is the rename, done or failed
RenameAttempted(p) ==
    \/ steps'[p] = Append(steps[p], "persist")
    \/ steps'[p] = Append(steps[p], "persist!")

\* this step of process p is the failure of one of the steps in front of
\* the rename
WritePhaseFailed(p) ==
    \E k \in 1..Len(WritePhase) : steps'[p] = Append(steps[p], WritePhase[k] \o "!")

\* the last n entries of a sequence
LastN(s, n) == SubSeq(s, Len(s) - n + 1, Len(s))

\* C26: in write_file_secure and in update_file the rename is attempted
\* only when the last four steps done are, in this order, the write of the
\* whole new content, the flush, the fsync and the change of mode to 0600;
\* a running operation changes its destination in no other step, the
\* destination then has the whole new content with mode 0600, and when one
\* of the four steps fails the operation returns with the destination
\* unchanged and no rename in its steps.
C26_RenameAfterWritePhase ==
    [][\A p \in Procs :
          /\ RenameAttempted(p) =>
                /\ Len(steps[p]) >= Len(WritePhase)
                /\ LastN(steps[p], Len(WritePhase)) = WritePhase
                /\ temp[p] = File(loc[p].contents, MODE_0600)
          /\ (~Idle(p) /\ files'[Dest(op[p])] # files[Dest(op[p])]) =>
                /\ steps'[p] = Append(steps[p], "persist")
                /\ files'[Dest(op[p])] = File(loc[p].contents, MODE_0600)
          /\ WritePhaseFailed(p) =>
                /\ pc'[p] = "done"
                /\ result'[p].status = "err"
                /\ files' = files
                /\ "persist" \notin Range(steps'[p])
                /\ "persist!" \notin Range(steps'[p])
      ]_vars

C26_Witness ==
    /\ op[1] = "update_file"
    /\ pc[1] = "done"
    /\ Len(steps[1]) > Len(WritePhase)
    /\ LastN(steps[1], Len(WritePhase) + 1) = WritePhase \o <<"persist">>
    /\ atCall[1].dest.mode = MODE_0644
    /\ files["crypt"] = File(loc[1].contents, MODE_0600)

(***************************************************************************)
(* The passphrase of one update_file call, checked under Spec.             *)
(***************************************************************************)
\* the update_file call of process p got the existing file as a string
GotExistingFile(p) == "read_crypt" \in Range(steps[p])

\* C27: one update_file call reads the passphrase source at most once, and
\* a call that has returned has read it once if it got the existing file
\* and not at all otherwise; the passphrase phase 2 encrypts under is the
\* one that opened the existing file in phase 1, the first answer of the
\* source, and the new content opens under it, although the source would
\* answer a second read with another value.
C27_PassphraseReadOnce ==
    \A p \in Procs :
        op[p] = "update_file" =>
            /\ loc[p].preads <= 1
            /\ loc[p].preads = 1 => GotExistingFile(p)
            /\ UpdateReturned(p) =>
                  loc[p].preads = IF GotExistingFile(p) THEN 1 ELSE 0
            /\ loc[p].haveContents =>
                  /\ SecondAnswer(reader[p]) # reader[p]
                  /\ loc[p].authPass = reader[p]
                  /\ loc[p].encPass = loc[p].authPass
                  /\ decrypt(loc[p].authPass, unwrap(loc[p].armored).val).ok
                  /\ decrypt(loc[p].authPass, unwrap(loc[p].contents).val).ok

C27_Witness ==
    /\ UpdateReturned(1)
    /\ result[1].status = "ok"
    /\ loc[1].preads = 1
    /\ loc[1].encPass = <<116, 255>>
    /\ files["crypt"].content = loc[1].contents
    /\ ~decrypt(SecondAnswer(reader[1]), unwrap(files["crypt"].content).val).ok

(***************************************************************************)
(* Structure before key, checked under SpecEnvelope.                       *)
(***************************************************************************)
\* decrypt was given an input that fails one of the structural checks
StructurallyInvalid == Decoded /\ FailedChecks # {}

\* C28: decrypt makes every structural check before it derives the key: for
\* a structurally invalid input (cut short, negative or oversized length,
\* bytes left over) it returns a structural error, never the
\* authentication error, without deriving the key, and it returns that same
\* error for every passphrase; the key is derived exactly for the inputs
\* that pass every structural check.
C28_StructureBeforeKey ==
    Decoded =>
        /\ cx.kdf <=> FailedChecks = {}
        /\ StructurallyInvalid =>
              /\ ~cx.res.ok
              /\ cx.res.err # AuthFailedMsg
              /\ cx.res.err \in Range(CheckMsg)
              /\ \A K \in Passphrases :
                    decrypt_traced(cx.width, K, cx.bytes) = Traced(cx.res, FALSE)

C28_Witness ==
    /\ StructurallyInvalid
    /\ cx.made = "extended"
    /\ cx.dpass # cx.pass
    /\ ~cx.kdf
    /\ cx.res = Err(MsgTrailingData)
    /\ ~decrypt_target(cx.width, cx.dpass, cx.orig).ok

(***************************************************************************)
(* Two invocations on one destination, checked under SpecConc.             *)
(***************************************************************************)
\* s is the front of t
IsFrontOf(s, t) == Len(s) <= Len(t) /\ s = Take(t, Len(s))

\* this step is the rename of process p over the encrypted file
Renames(p) == steps'[p] = Append(steps[p], "persist")

\* the complete output of the invocation of process p
OutputOf(p) == File(loc[p].contents, MODE_0600)

\* the processes whose invocation has renamed its output over the file
Renamed == { p \in Procs : pc[p] = "done" /\ result[p].status = "ok" }

\* C29: when two invocations of encrypt_file or update_file on one
\* destination interleave, each step of one leaves the temporary file of
\* the other alone and a temporary file holds a front part of the output of
\* its own invocation; the destination changes only in a rename, which
\* makes it the complete output of the renaming invocation and takes its
\* temporary file away, so it always is the old file or the complete output
\* of one invocation that has renamed; once both have returned with success
\* no temporary file is left.
C29_InterleavedWriters ==
    [][/\ \A p \in Procs :
             /\ temp'[p].exists => IsFrontOf(temp'[p].content, loc'[p].contents)
             /\ (pc'[p] # pc[p] \/ temp'[p] # temp[p]) =>
                   \A q \in Procs \ {p} : temp'[q] = temp[q]
             /\ Renames(p) =>
                   /\ temp[p] = OutputOf(p)
                   /\ files'["crypt"] = OutputOf(p)
                   /\ ~temp'[p].exists
       /\ files'["crypt"] # files["crypt"] => \E p \in Procs : Renames(p)
       /\ files'["crypt"] \in {ExistingFile} \cup { OutputOf(p) : p \in Renamed' }
       /\ Renamed' = Procs => \A p \in Procs : ~temp'[p].exists
      ]_vars

C29_Witness ==
    /\ Renamed = Procs
    /\ op[1] = "encrypt_file"
    /\ op[2] = "update_file"
    /\ loc[2].armored = ExistingFile.content
    /\ loc[1].contents # loc[2].contents
    /\ files["crypt"] = OutputOf(2)
    /\ \A p \in Procs : ~temp[p].exists

\* C30 as stated: the content update_file replaces by its rename is the
\* content it read and authenticated in phase 1.
C30_ReplacesWhatItRead ==
    [][\A p \in Procs :
          (op[p] = "update_file" /\ Renames(p)) =>
              files["crypt"].content = loc[p].armored
      ]_vars

====
